---- MODULE Spec2Model ----
(***************************************************************************)
(* simpleaichat: the session / request orchestration engine.               *)
(*                                                                         *)
(*   models.py        ChatMessage, ChatSession (format_input_messages,     *)
(*                    add_messages)                                        *)
(*   chatgpt.py       ChatGPTSession (prepare_request, gen, stream,        *)
(*                    gen_with_tools)                                      *)
(*   simpleaichat.py  AIChat (new_session, get_session, reset_session,     *)
(*                    delete_session, session, __call__, stream,           *)
(*                    load_session)                                        *)
(*                                                                         *)
(* Python values.  An Optional value is the empty tuple (None) or a        *)
(* one-element tuple holding the value.  A str is a TLA+ string.  A dict   *)
(* is a function whose DOMAIN is the set of its keys.  Session objects     *)
(* live in a heap and are referred to by reference, as in Python: the      *)
(* manager's sessions map and its default_session pointer hold references. *)
(* ChatMessage.received_at, ChatSession.created_at and title play no part  *)
(* in the operations modelled here and are left out of the records.        *)
(***************************************************************************)
EXTENDS Integers, Sequences, FiniteSets, TLC

VARIABLES
    heap,             \* reference -> ChatGPTSession object
    sessions,         \* AIChat.sessions: id -> reference
    default_session,  \* AIChat.default_session: Optional reference
    call,             \* the operation in progress: arguments, locals, position
    sent,             \* the requests handed to the transport by the operation
    emitted,          \* the events yielded by the stream generator
    client,           \* AIChat.client: the transport client, [type, made]
    environ,          \* os.getenv("OPENAI_API_KEY"): Optional str
    scopes,           \* the scoped sessions whose with-block is open, innermost last
    invoked,          \* the tool callables invoked by the operation
    cls,              \* the class of the manager: "AIChat" or "AsyncAIChat"
    tasks,            \* the suspended coroutines of the event loop: their call records
    conn,             \* the number of streamed responses the transport holds open
    disk,             \* path -> the content of the file written there
    now,              \* the clock read by now_tz(): a UTC instant
    tzlocal,          \* the time zone of the machine
    billed            \* reference -> the successful gen requests of that session
                      \* object: their number and the sums of their usage counters

vars == <<heap, sessions, default_session, client, environ, scopes,
          call, sent, emitted, invoked, billed, cls, tasks, conn, disk, now, tzlocal>>

----------------------------------------------------------------------------
(* Bounds of the model *)

MaxTasks == 2         \* the coroutines run together on one event loop
MaxMessages == 4      \* an operation starts only while the history is shorter
MaxRequests == 3      \* gen responses processed per session object
MaxStreamed == 3      \* a stream starts only while the history is shorter
MaxLines == 2         \* lines of one streamed response in SpecStream
MaxSseLines == 3      \* lines of one streamed response in SpecSSE
MaxPoolRequests == 1  \* gen requests per session object in the pool specification
MaxSessions == 2      \* session objects alive at the same time
MaxClock == 3         \* the last tick of the clock

----------------------------------------------------------------------------
(* Python helpers *)

None == <<>>
Some(v) == <<v>>
IsNone(o) == Len(o) = 0
Val(o) == o[1]

Min(a, b) == IF a <= b THEN a ELSE b
Max(a, b) == IF a >= b THEN a ELSE b

\* seq[start:] with Python's treatment of a negative start
PySliceFrom(seq, start) ==
    LET n == Len(seq)
        s == IF start < 0 THEN Max(n + start, 0) ELSE Min(start, n)
    IN SubSeq(seq, s + 1, n)

\* bool(x) of an Optional[int]: None and 0 are falsy
TruthyOptInt(o) == ~IsNone(o) /\ Val(o) # 0
\* bool(x) of an Optional[bool]
TruthyOptBool(o) == ~IsNone(o) /\ Val(o)
\* bool(x) of an Optional[str]: None and "" are falsy
TruthyOptStr(o) == ~IsNone(o) /\ Val(o) # ""
\* bool(x) of an Optional[dict]: None and {} are falsy
TruthyOptDict(o) == ~IsNone(o) /\ DOMAIN Val(o) # {}

Digits == <<"0", "1", "2", "3", "4", "5", "6", "7", "8", "9">>

\* str(n) of a non-negative int
RECURSIVE Str(_)
Str(n) == IF n < 10 THEN Digits[n + 1] ELSE Str(n \div 10) \o Digits[(n % 10) + 1]

DigitValue(ch) == CHOOSE d \in 0..9 : Digits[d + 1] = ch
IsDigit(ch) == \E d \in 0..9 : Digits[d + 1] = ch

RECURSIVE DigitsValue(_)
DigitsValue(s) ==
    IF Len(s) = 0 THEN 0
    ELSE 10 * DigitsValue(SubSeq(s, 1, Len(s) - 1)) + DigitValue(SubSeq(s, Len(s), Len(s)))

AllDigits(s) == Len(s) > 0 /\ \A i \in 1..Len(s) : IsDigit(SubSeq(s, i, i))

\* int(s): Some(value), or None where Python raises ValueError
ParseInt(s) ==
    IF AllDigits(s) THEN Some(DigitsValue(s))
    ELSE IF Len(s) > 1 /\ SubSeq(s, 1, 1) = "-" /\ AllDigits(SubSeq(s, 2, Len(s)))
         THEN Some(0 - DigitsValue(SubSeq(s, 2, Len(s))))
    ELSE IF Len(s) > 1 /\ SubSeq(s, 1, 1) = "+" /\ AllDigits(SubSeq(s, 2, Len(s)))
         THEN Some(DigitsValue(SubSeq(s, 2, Len(s))))
    ELSE None

\* "".join(list)
RECURSIVE Join(_)
Join(list) == IF Len(list) = 0 THEN "" ELSE list[1] \o Join(Tail(list))

----------------------------------------------------------------------------
(* models.py: ChatMessage *)

MessageFields ==
    {"role", "content", "name", "function_call", "received_at", "finish_reason",
     "prompt_length", "completion_length", "total_length"}
OptionalFields == MessageFields \ {"role", "content", "received_at"}

\* the instant the clock starts at
Epoch == 0

\* a ChatMessage constructed now: received_at is the value of now_tz()
ChatMessage(role, content, name, finish_reason, pl, cl, tl) ==
    [role |-> role, content |-> content, name |-> name, function_call |-> None,
     received_at |-> now, finish_reason |-> finish_reason,
     prompt_length |-> pl, completion_length |-> cl, total_length |-> tl]

\* a dump of every field that has a value
ModelDumpAll(m, include) ==
    LET keys == {f \in MessageFields : f \in OptionalFields => ~IsNone(m[f])}
    IN [f \in keys |-> IF f \in OptionalFields THEN Val(m[f]) ELSE m[f]]

\* m.model_dump(include=fields, exclude_none=True)
ModelDump(m, include) ==
    LET keys == {f \in MessageFields \cap include :
                    f \in OptionalFields => ~IsNone(m[f])}
    IN [f \in keys |-> IF f \in OptionalFields THEN Val(m[f]) ELSE m[f]]

----------------------------------------------------------------------------
(* models.py: ChatSession *)

\* ChatSession.format_input_messages
FormatInputMessages(self, system_message, user_message) ==
    LET recent_messages ==
            IF TruthyOptInt(self.recent_messages)
            THEN PySliceFrom(self.messages, 0 - Val(self.recent_messages))
            ELSE self.messages
    IN <<ModelDump(system_message, self.input_fields)>>
       \o [i \in 1..Len(recent_messages) |->
              ModelDump(recent_messages[i], self.input_fields)]
       \o <<ModelDump(user_message, self.input_fields)>>

\* add_messages that stores the assistant message alone
AddMessagesAnswerOnly(self, user_message, assistant_message, save_messages) ==
    IF (IF IsNone(save_messages) THEN TruthyOptBool(self.save_messages)
        ELSE Val(save_messages))
    THEN [self EXCEPT !.messages = Append(@, assistant_message)]
    ELSE self

\* add_messages that looks at the session's default alone
AddMessagesDefaultOnly(self, user_message, assistant_message, save_messages) ==
    IF TruthyOptBool(self.save_messages)
    THEN [self EXCEPT !.messages = @ \o <<user_message, assistant_message>>]
    ELSE self

\* ChatSession.add_messages: the session after the call
AddMessages(self, user_message, assistant_message, save_messages) ==
    LET to_save == ~IsNone(save_messages)
    IN IF to_save
       THEN IF Val(save_messages)
            THEN [self EXCEPT !.messages = @ \o <<user_message, assistant_message>>]
            ELSE self
       ELSE IF TruthyOptBool(self.save_messages)
            THEN [self EXCEPT !.messages = @ \o <<user_message, assistant_message>>]
            ELSE self

----------------------------------------------------------------------------
(* chatgpt.py: ChatGPTSession *)

\* A prompt is a str, or an instance of a pydantic schema class
StrPrompt(text) == [type |-> "str", text |-> text]
\* prompt.model_dump_json() of a schema instance
ModelDumpJson(prompt) == "{" \o prompt.text \o "}"

\* ChatGPTSession.schema_to_function: Some(function), None on a failed assert
SchemaToFunction(schema) ==
    IF schema.doc = "" \/ "title" \in schema.fields
    THEN None
    ELSE Some([name |-> schema.name, description |-> schema.doc,
               parameters |-> schema.fields \ {"title"}])

\* ChatGPTSession.prepare_request: [status, headers, data, user_message]
PrepareRequest(self, prompt, system, params, stream, input_schema, output_schema) ==
    LET headers == [ContentType |-> "application/json",
                    Authorization |-> "Bearer " \o self.auth.api_key]
        system_message ==
            ChatMessage("system",
                        IF TruthyOptStr(system) THEN Val(system) ELSE self.system,
                        None, None, None, None, None)
        user_message ==
            IF IsNone(input_schema)
            THEN ChatMessage("user", prompt.text, None, None, None, None, None)
            ELSE ChatMessage("function", ModelDumpJson(prompt),
                             Some(Val(input_schema).name), None, None, None, None)
        gen_params == IF TruthyOptDict(params) THEN Val(params) ELSE self.params
        in_fn == IF IsNone(input_schema) THEN None
                 ELSE SchemaToFunction(Val(input_schema))
        out_fn == IF IsNone(output_schema) THEN None
                  ELSE SchemaToFunction(Val(output_schema))
        functions ==
            (IF IsNone(input_schema) THEN <<>> ELSE in_fn)
            \o (IF IsNone(output_schema) \/ (~IsNone(input_schema) /\ out_fn = in_fn)
                THEN <<>> ELSE out_fn)
        data == [model |-> self.model,
                 messages |-> FormatInputMessages(self, system_message, user_message),
                 stream |-> stream,
                 params |-> gen_params,
                 function_call |->
                     IF IsNone(output_schema) THEN None
                     ELSE Some([name |-> Val(output_schema).name]),
                 functions |->
                     IF IsNone(input_schema) /\ IsNone(output_schema)
                     THEN None ELSE Some(functions)]
        status ==
            IF IsNone(input_schema) /\ prompt.type # "str" THEN "ValidationError"
            ELSE IF ~IsNone(input_schema) /\ prompt.type # Val(input_schema).name
                 THEN "AssertionError"
            ELSE IF ~IsNone(input_schema) /\ IsNone(in_fn) THEN "AssertionError"
            ELSE IF ~IsNone(output_schema) /\ IsNone(out_fn) THEN "AssertionError"
            ELSE "ok"
    IN [status |-> status, headers |-> headers, data |-> data,
        user_message |-> user_message]

(* A provider response is the parsed JSON body.  A key that may be missing *)
(* holds None when it is missing and Some(v) when it is present; a present *)
(* value that may be JSON null is itself an Optional.                      *)
Usage(p, c, t) ==
    [prompt_tokens |-> Some(Some(p)), completion_tokens |-> Some(Some(c)),
     total_tokens |-> Some(Some(t))]

Completion(role, content, finish_reason, usage) ==
    [choices |-> Some(<<[message |-> Some([role |-> Some(Some(role)),
                                           content |-> Some(Some(content)),
                                           function_call |-> None]),
                         finish_reason |-> Some(Some(finish_reason))]>>),
     usage |-> Some(usage)]

FunctionCompletion(arguments, finish_reason, usage) ==
    [choices |-> Some(<<[message |-> Some([role |-> Some(Some("assistant")),
                                           content |-> Some(None),
                                           function_call |->
                                               Some(Some([arguments |-> Some(arguments)]))]),
                         finish_reason |-> Some(Some(finish_reason))]>>),
     usage |-> Some(usage)]

\* orjson.loads of a function call's arguments: Some(object), None on a decode error
OrjsonLoads(text) ==
    IF Len(text) >= 2 /\ SubSeq(text, 1, 1) = "{" /\ SubSeq(text, Len(text), Len(text)) = "}"
    THEN Some([object |-> SubSeq(text, 2, Len(text) - 1)])
    ELSE None

\* a gen that leaves the totals alone
AddUsageSkipped(self, r) == [self |-> self, status |-> "ok"]

\* the three += with the completion counter left out
AddUsageNoCompletion(self, r) ==
    IF IsNone(r.usage) THEN [self |-> self, status |-> "KeyError"]
    ELSE LET u == Val(r.usage) IN
    IF IsNone(u.prompt_tokens) \/ IsNone(u.completion_tokens) \/ IsNone(u.total_tokens)
    THEN [self |-> self, status |-> "KeyError"]
    ELSE [self |-> [self EXCEPT !.total_prompt_length = @ + Val(Val(u.prompt_tokens)),
                                !.total_length = @ + Val(Val(u.total_tokens))],
          status |-> "ok"]

\* gen, lines 128-130: the three += in order; a missing key raises KeyError and a
\* null counter TypeError, each after the earlier additions were applied
AddUsage(self, r) ==
    IF IsNone(r.usage) THEN [self |-> self, status |-> "KeyError"]
    ELSE LET u == Val(r.usage) IN
    IF IsNone(u.prompt_tokens) THEN [self |-> self, status |-> "KeyError"]
    ELSE IF IsNone(Val(u.prompt_tokens)) THEN [self |-> self, status |-> "TypeError"]
    ELSE LET s1 == [self EXCEPT !.total_prompt_length = @ + Val(Val(u.prompt_tokens))] IN
    IF IsNone(u.completion_tokens) THEN [self |-> s1, status |-> "KeyError"]
    ELSE IF IsNone(Val(u.completion_tokens)) THEN [self |-> s1, status |-> "TypeError"]
    ELSE LET s2 == [s1 EXCEPT !.total_completion_length = @ + Val(Val(u.completion_tokens))] IN
    IF IsNone(u.total_tokens) THEN [self |-> s2, status |-> "KeyError"]
    ELSE IF IsNone(Val(u.total_tokens)) THEN [self |-> s2, status |-> "TypeError"]
    ELSE [self |-> [s2 EXCEPT !.total_length = @ + Val(Val(u.total_tokens))],
          status |-> "ok"]

\* an assistant message that leaves the usage counters of the response out
AssistantMessageNoUsage(r) ==
    LET ch == Val(r.choices)[1]
        msg == Val(ch.message)
    IN ChatMessage(Val(Val(msg.role)), Val(Val(msg.content)), None,
                   Val(ch.finish_reason), None, None, None)

\* gen, lines 115-122: the assistant message of a response that has every field
AssistantMessage(r) ==
    LET ch == Val(r.choices)[1]
        msg == Val(ch.message)
        u == Val(r.usage)
    IN ChatMessage(Val(Val(msg.role)), Val(Val(msg.content)), None,
                   Val(ch.finish_reason),
                   Val(u.prompt_tokens), Val(u.completion_tokens), Val(u.total_tokens))

\* gen, lines 110-134, on the parsed response r: [self, status, content]
GenResult(self, user_message, save_messages, output_schema, r) ==
    LET fail(s, e) == [self |-> s, status |-> e, content |-> None] IN
    IF IsNone(r.choices) THEN fail(self, "KeyError")
    ELSE IF Len(Val(r.choices)) = 0 THEN fail(self, "IndexError")
    ELSE LET ch == Val(r.choices)[1] IN
    IF IsNone(ch.message) THEN fail(self, "KeyError")
    ELSE LET msg == Val(ch.message) IN
    IF IsNone(output_schema)
    THEN IF IsNone(msg.content) \/ IsNone(msg.role) \/ IsNone(ch.finish_reason)
            \/ IsNone(r.usage)
         THEN fail(self, "KeyError")
         ELSE LET u == Val(r.usage) IN
         IF IsNone(u.prompt_tokens) \/ IsNone(u.completion_tokens)
            \/ IsNone(u.total_tokens)
         THEN fail(self, "KeyError")
         ELSE IF IsNone(Val(msg.content)) \/ IsNone(Val(msg.role))
         THEN fail(self, "ValidationError")
         ELSE LET content == Val(Val(msg.content))
                  s1 == AddMessages(self, user_message, AssistantMessage(r),
                                    save_messages)
                  tot == AddUsage(s1, r)
              IN [self |-> tot.self, status |-> tot.status,
                  content |-> IF tot.status = "ok" THEN Some(content) ELSE None]
    ELSE IF IsNone(msg.function_call) THEN fail(self, "KeyError")
         ELSE IF IsNone(Val(msg.function_call)) THEN fail(self, "TypeError")
         ELSE LET fc == Val(Val(msg.function_call)) IN
         IF IsNone(fc.arguments) THEN fail(self, "KeyError")
         ELSE LET parsed == OrjsonLoads(Val(fc.arguments)) IN
         IF IsNone(parsed) THEN fail(self, "JSONDecodeError")
         ELSE LET tot == AddUsage(self, r)
              IN [self |-> tot.self, status |-> tot.status,
                  content |-> IF tot.status = "ok" THEN parsed ELSE None]

\* list[i] with Python's treatment of a negative index: None on IndexError
PyIndex(list, i) ==
    LET n == Len(list) IN
    IF 0 <= i /\ i < n THEN Some(list[i + 1])
    ELSE IF i < 0 /\ 0 - n <= i THEN Some(list[n + i + 1])
    ELSE None

\* sep.join(list)
RECURSIVE JoinWith(_, _)
JoinWith(sep, list) ==
    IF Len(list) = 0 THEN ""
    ELSE IF Len(list) = 1 THEN list[1]
    ELSE list[1] \o sep \o JoinWith(sep, Tail(list))

tool_prompt ==
    "From the list of tools below:\n- Reply ONLY with the number of the tool appropriate in response to the user's last message.\n- If no tool is appropriate, ONLY reply with \"0\".\n\n"

\* gen_with_tools, lines 187-188
ToolPromptFormat(tools) ==
    tool_prompt \o JoinWith("\n", [i \in 1..Len(tools) |-> Str(i) \o ": " \o tools[i].doc])

logit_bias_weight == 100

\* a bias that leaves the last tool's digit out
ProbeParamsShort(tools) ==
    [temperature |-> "0.0", max_tokens |-> 1,
     logit_bias |-> [k \in {Str(j) : j \in 15..(15 + Len(tools) - 1)} |-> logit_bias_weight]]

\* gen_with_tools, lines 190-203: the params of the selection request
ProbeParams(tools) ==
    [temperature |-> "0.0", max_tokens |-> 1,
     logit_bias |-> [k \in {Str(j) : j \in 15..(15 + Len(tools))} |-> logit_bias_weight]]

\* gen_with_tools, lines 221-224: the tool's result made a dict, with its tool key
ContextDict(result, selected_tool) ==
    LET d == IF result.type = "str" THEN [context |-> result.text] ELSE result.dict
    IN [k \in DOMAIN d \cup {"tool"} |-> IF k = "tool" THEN selected_tool.name ELSE d[k]]

\* a standard generation that leaves the caller's system out
FallbackRequestNoSystem(self, args) ==
    PrepareRequest(self, args.prompt, None, args.params, FALSE, None, None)

\* gen_with_tools, lines 208-216: the request of the standard generation
FallbackRequest(self, args) ==
    PrepareRequest(self, args.prompt, args.system, args.params, FALSE, None, None)

\* a commit of the user message that was sent with the context request
CommitSentTurn(self, args, sent_message, response) ==
    AddMessages(self, sent_message,
                ChatMessage("assistant", response, None, None, None, None, None),
                args.save_messages)

\* gen_with_tools, lines 238-243: the turn committed after the context generation;
\* sent_message is the user message of the context request
CommitToolTurn(self, args, sent_message, response) ==
    AddMessages(self,
                ChatMessage("user", args.prompt.text, None, None, None, None, None),
                ChatMessage("assistant", response, None, None, None, None, None),
                args.save_messages)

\* gen_with_tools, line 227
NewSystem(self, system) ==
    (IF TruthyOptStr(system) THEN Val(system) ELSE self.system)
    \o "\n\nYou MUST use information from the context in your response."

\* gen_with_tools, line 228
NewPrompt(context_dict, prompt) ==
    StrPrompt("Context: " \o context_dict["context"] \o "\n\nUser: " \o prompt.text)

\* s.startswith(prefix), s.endswith(suffix), sub in s
StartsWith(s, prefix) ==
    Len(s) >= Len(prefix) /\ SubSeq(s, 1, Len(prefix)) = prefix
EndsWith(s, suffix) ==
    Len(s) >= Len(suffix) /\ SubSeq(s, Len(s) - Len(suffix) + 1, Len(s)) = suffix
Contains(s, sub) ==
    \E i \in 1..(Len(s) - Len(sub) + 1) : SubSeq(s, i, i + Len(sub) - 1) = sub

(* One line of a streamed response is `data: <json>` with json of the shape *)
(* {"choices":[{"delta":{...}}]}, the terminator `data: [DONE]`, or blank.  *)
DeltaPrefix == "{\"choices\":[{\"delta\":{"
DeltaSuffix == "}}]}"
ContentPrefix == "\"content\":\""
DataLine(delta_body) == "data: " \o DeltaPrefix \o delta_body \o DeltaSuffix
ContentLine(text) == DataLine(ContentPrefix \o text \o "\"")

\* stream, lines 161-162: orjson.loads(chunk)["choices"][0]["delta"].get("content")
ChunkDelta(chunk) ==
    IF ~(StartsWith(chunk, DeltaPrefix) /\ EndsWith(chunk, DeltaSuffix)
         /\ Len(chunk) >= Len(DeltaPrefix) + Len(DeltaSuffix))
    THEN [status |-> "JSONDecodeError", delta |-> None]
    ELSE LET body == SubSeq(chunk, Len(DeltaPrefix) + 1, Len(chunk) - Len(DeltaSuffix))
         IN IF StartsWith(body, ContentPrefix) /\ EndsWith(body, "\"")
               /\ Len(body) > Len(ContentPrefix)
            THEN [status |-> "ok",
                  delta |-> Some(SubSeq(body, Len(ContentPrefix) + 1, Len(body) - 1))]
            ELSE [status |-> "ok", delta |-> None]

\* a stream whose events carry the delta as the response so far
StreamChunkDeltaOnly(content, line) ==
    IF Len(line) > 0 /\ PySliceFrom(line, 6) # "[DONE]"
    THEN LET d == ChunkDelta(PySliceFrom(line, 6)) IN
         IF d.status # "ok"
         THEN [status |-> d.status, content |-> content, events |-> <<>>]
         ELSE IF TruthyOptStr(d.delta)
         THEN [status |-> "ok", content |-> Append(content, Val(d.delta)),
               events |-> <<[delta |-> Val(d.delta), response |-> Val(d.delta)]>>]
         ELSE [status |-> "ok", content |-> content, events |-> <<>>]
    ELSE [status |-> "ok", content |-> content, events |-> <<>>]

\* stream, lines 158-165, for one line: [status, content, events]
StreamChunk(content, line) ==
    IF Len(line) > 0
    THEN LET chunk == PySliceFrom(line, 6) IN
         IF chunk # "[DONE]"
         THEN LET d == ChunkDelta(chunk) IN
              IF d.status # "ok"
              THEN [status |-> d.status, content |-> content, events |-> <<>>]
              ELSE IF TruthyOptStr(d.delta)
              THEN LET c1 == Append(content, Val(d.delta))
                   IN [status |-> "ok", content |-> c1,
                       events |-> <<[delta |-> Val(d.delta), response |-> Join(c1)]>>]
              ELSE [status |-> "ok", content |-> content, events |-> <<>>]
         ELSE [status |-> "ok", content |-> content, events |-> <<>>]
    ELSE [status |-> "ok", content |-> content, events |-> <<>>]

\* an assistant message made of the last delta alone
StreamMessageLast(content) ==
    ChatMessage("assistant",
                IF Len(content) = 0 THEN "" ELSE content[Len(content)],
                None, None, None, None, None)

\* stream, lines 167-175: the assistant message of a consumed stream
StreamMessage(content) ==
    ChatMessage("assistant", Join(content), None, None, None, None, None)

----------------------------------------------------------------------------
(* chatgpt.py: the async operations of ChatGPTSession *)

\* a gen_async that leaves the running total_length alone
GenAsyncResultUncounted(self, user_message, save_messages, output_schema, r) ==
    LET res == GenResult(self, user_message, save_messages, output_schema, r)
    IN [res EXCEPT !.self = [res.self EXCEPT !.total_length = self.total_length]]

\* a gen_async that writes back the history and the totals it read before its await
GenAsyncResultStale(self, user_message, save_messages, output_schema, r) ==
    GenResult(Val(call.pre), user_message, save_messages, output_schema, r)

\* gen_async, lines 269-291: [self, status, content]
GenAsyncResult(self, user_message, save_messages, output_schema, r) ==
    LET fail(s, e) == [self |-> s, status |-> e, content |-> None] IN
    IF IsNone(r.choices) THEN fail(self, "KeyError")
    ELSE IF Len(Val(r.choices)) = 0 THEN fail(self, "IndexError")
    ELSE LET ch == Val(r.choices)[1] IN
    IF IsNone(ch.message) THEN fail(self, "KeyError")
    ELSE LET msg == Val(ch.message) IN
    IF IsNone(output_schema)
    THEN IF IsNone(msg.content) \/ IsNone(msg.role) \/ IsNone(ch.finish_reason)
            \/ IsNone(r.usage)
         THEN fail(self, "KeyError")
         ELSE LET u == Val(r.usage) IN
         IF IsNone(u.prompt_tokens) \/ IsNone(u.completion_tokens)
            \/ IsNone(u.total_tokens)
         THEN fail(self, "KeyError")
         ELSE IF IsNone(Val(msg.content)) \/ IsNone(Val(msg.role))
         THEN fail(self, "ValidationError")
         ELSE LET content == Val(Val(msg.content))
                  s1 == AddMessages(self, user_message, AssistantMessage(r),
                                    save_messages)
                  tot == AddUsage(s1, r)
              IN [self |-> tot.self, status |-> tot.status,
                  content |-> IF tot.status = "ok" THEN Some(content) ELSE None]
    ELSE IF IsNone(msg.function_call) THEN fail(self, "KeyError")
         ELSE IF IsNone(Val(msg.function_call)) THEN fail(self, "TypeError")
         ELSE LET fc == Val(Val(msg.function_call)) IN
         IF IsNone(fc.arguments) THEN fail(self, "KeyError")
         ELSE LET parsed == OrjsonLoads(Val(fc.arguments)) IN
         IF IsNone(parsed) THEN fail(self, "JSONDecodeError")
         ELSE LET tot == AddUsage(self, r)
              IN [self |-> tot.self, status |-> tot.status,
                  content |-> IF tot.status = "ok" THEN parsed ELSE None]

\* stream_async, lines 315-322, for one line: [status, content, events]
StreamAsyncChunk(content, line) ==
    IF Len(line) > 0
    THEN LET chunk == PySliceFrom(line, 6) IN
         IF chunk # "[DONE]"
         THEN LET d == ChunkDelta(chunk) IN
              IF d.status # "ok"
              THEN [status |-> d.status, content |-> content, events |-> <<>>]
              ELSE IF TruthyOptStr(d.delta)
              THEN LET c1 == Append(content, Val(d.delta))
                   IN [status |-> "ok", content |-> c1,
                       events |-> <<[delta |-> Val(d.delta), response |-> Join(c1)]>>]
              ELSE [status |-> "ok", content |-> content, events |-> <<>>]
         ELSE [status |-> "ok", content |-> content, events |-> <<>>]
    ELSE [status |-> "ok", content |-> content, events |-> <<>>]

\* stream_async, lines 324-330: the assistant message of a consumed stream
StreamAsyncMessage(content) ==
    ChatMessage("assistant", Join(content), None, None, None, None, None)

\* gen_with_tools_async, lines 342-343
ToolPromptFormatAsync(tools) ==
    tool_prompt \o JoinWith("\n", [i \in 1..Len(tools) |-> Str(i) \o ": " \o tools[i].doc])

\* gen_with_tools_async, lines 345-358: the params of the selection request
ProbeParamsAsync(tools) ==
    [temperature |-> "0.0", max_tokens |-> 1,
     logit_bias |-> [k \in {Str(j) : j \in 15..(15 + Len(tools))} |-> logit_bias_weight]]

\* gen_with_tools_async, lines 376-379
ContextDictAsync(result, selected_tool) ==
    LET d == IF result.type = "str" THEN [context |-> result.text] ELSE result.dict
    IN [k \in DOMAIN d \cup {"tool"} |-> IF k = "tool" THEN selected_tool.name ELSE d[k]]

\* gen_with_tools_async, lines 363-371: the request of the standard generation
FallbackRequestAsync(self, args) ==
    PrepareRequest(self, args.prompt, args.system, args.params, FALSE, None, None)

\* gen_with_tools_async, lines 393-398
CommitToolTurnAsync(self, args, sent_message, response) ==
    AddMessages(self,
                ChatMessage("user", args.prompt.text, None, None, None, None, None),
                ChatMessage("assistant", response, None, None, None, None, None),
                args.save_messages)

\* gen_with_tools_async, line 382
NewSystemAsync(self, system) ==
    (IF TruthyOptStr(system) THEN Val(system) ELSE self.system)
    \o "\n\nYou MUST use information from the context in your response."

\* gen_with_tools_async, line 383
NewPromptAsync(context_dict, prompt) ==
    StrPrompt("Context: " \o context_dict["context"] \o "\n\nUser: " \o prompt.text)

----------------------------------------------------------------------------
(* simpleaichat.py: AIChat *)

DefaultSystem == "You are a helpful assistant."
DefaultModel == "gpt-3.5-turbo"

\* the keyword arguments a session is created from; None is a key not passed
NoKwargs ==
    [id |-> None, model |-> None, api_key |-> None, system |-> None,
     params |-> None, recent_messages |-> None, save_messages |-> None,
     messages |-> None, totals |-> None, input_fields |-> None]

\* ChatGPTSession.input_fields
DefaultInputFields == {"role", "content", "name"}

\* AIChat.build_system without a character
BuildSystem(system) == IF TruthyOptStr(system) THEN Val(system) ELSE DefaultSystem

\* a resolution that asks the environment first
GptApiKeyEnvFirst(api_key, env) == IF TruthyOptStr(env) THEN env ELSE api_key

\* AIChat.new_session, line 68: kwargs.get("api_key") or os.getenv("OPENAI_API_KEY")
GptApiKey(api_key, env) == IF TruthyOptStr(api_key) THEN api_key ELSE env

\* AIChat.new_session, lines 65-76: [status, sess]; uuid is the value of uuid4()
NewSessionObject(kwargs, uuid, env) ==
    LET model == IF IsNone(kwargs.model) THEN DefaultModel ELSE Val(kwargs.model)
        gpt_api_key == GptApiKey(kwargs.api_key, env)
        sess ==
            [id |-> IF IsNone(kwargs.id) THEN uuid ELSE Val(kwargs.id),
             auth |-> [api_key |-> IF IsNone(gpt_api_key) THEN "" ELSE Val(gpt_api_key)],
             api_url |-> "https://api.openai.com/v1/chat/completions",
             model |-> model,
             system |-> IF IsNone(kwargs.system) THEN DefaultSystem ELSE Val(kwargs.system),
             params |-> IF IsNone(kwargs.params) THEN [temperature |-> "0.7"]
                        ELSE Val(kwargs.params),
             messages |-> IF IsNone(kwargs.messages) THEN <<>> ELSE Val(kwargs.messages),
             input_fields |-> IF IsNone(kwargs.input_fields) THEN DefaultInputFields
                              ELSE Val(kwargs.input_fields),
             recent_messages |-> kwargs.recent_messages,
             save_messages |-> IF IsNone(kwargs.save_messages) THEN Some(TRUE)
                               ELSE Val(kwargs.save_messages),
             total_prompt_length |-> IF IsNone(kwargs.totals) THEN 0 ELSE Val(kwargs.totals)[1],
             total_completion_length |-> IF IsNone(kwargs.totals) THEN 0 ELSE Val(kwargs.totals)[2],
             total_length |-> IF IsNone(kwargs.totals) THEN 0 ELSE Val(kwargs.totals)[3]]
    IN IF ~Contains(model, "gpt-") THEN [status |-> "UnboundLocalError", sess |-> sess]
       ELSE IF ~TruthyOptStr(gpt_api_key) THEN [status |-> "AssertionError", sess |-> sess]
       ELSE [status |-> "ok", sess |-> sess]

\* AIChat.get_session: [status, ref]
GetSession(id) ==
    IF TruthyOptStr(id)
    THEN IF Val(id) \in DOMAIN sessions
         THEN [status |-> "ok", ref |-> Some(sessions[Val(id)])]
         ELSE [status |-> "KeyError", ref |-> None]
    ELSE IF IsNone(default_session)
         THEN [status |-> "ValueError", ref |-> None]
         ELSE [status |-> "ok", ref |-> default_session]

----------------------------------------------------------------------------
(* The state machine *)

Refs == 1..MaxSessions
FreeRefs == Refs \ DOMAIN heap
NewRef == CHOOSE r \in FreeRefs : \A q \in FreeRefs : r <= q

Restrict(f, S) == [x \in DOMAIN f \cap S |-> f[x]]

\* the session objects something still refers to
Live(sess_map, dflt, scp, cl) ==
    {sess_map[k] : k \in DOMAIN sess_map}
    \cup {dflt[i] : i \in DOMAIN dflt}
    \cup {scp[i] : i \in DOMAIN scp}
    \cup {cl.ref[i] : i \in DOMAIN cl.ref}

NoArgs ==
    [prompt |-> StrPrompt(""), id |-> None, system |-> None, save_messages |-> None,
     params |-> None, tools |-> None, input_schema |-> None, output_schema |-> None]

NoCall ==
    [op |-> "none", pc |-> "idle", ref |-> None, args |-> NoArgs, kwargs |-> NoKwargs,
     user_message |-> None, pre |-> None, content |-> <<>>, lines |-> <<>>,
     r |-> None, context_dict |-> None, ret |-> None, err |-> ""]

Idle == call.pc \in {"idle", "returned", "raised", "closed"}

\* the ledger of a session object: the number n of gen responses processed on it,
\* the summed usage p, c, t of those processed without an exception, whether all
\* of them were, and the totals the object was constructed with
Unbilled(p, c, t) ==
    [n |-> 0, p |-> 0, c |-> 0, t |-> 0, clean |-> TRUE, p0 |-> p, c0 |-> c, t0 |-> t]

\* the bookkeeping of one gen request on session object ref that ended with status
Bill(ref, status, r) ==
    IF status = "ok"
    THEN LET u == Val(r.usage) IN
         [billed EXCEPT ![ref] =
             [@ EXCEPT !.n = @ + 1,
                       !.p = @ + Val(Val(u.prompt_tokens)),
                       !.c = @ + Val(Val(u.completion_tokens)),
                       !.t = @ + Val(Val(u.total_tokens))]]
    ELSE [billed EXCEPT ![ref] = [@ EXCEPT !.n = @ + 1, !.clean = FALSE]]

\* the record of an operation that ran to its end without touching a session
Returned(op, args, ref, ret) ==
    [NoCall EXCEPT !.op = op, !.pc = "returned", !.args = args, !.ref = ref,
                   !.ret = ret]
Raised(op, args, ref, err) ==
    [NoCall EXCEPT !.op = op, !.pc = "raised", !.args = args, !.ref = ref,
                   !.err = err]

\* the manager and the heap after an operation: objects nothing refers to are dropped
Commit(new_heap, new_sessions, new_default, new_scopes, new_call, new_billed) ==
    LET live == Live(new_sessions, new_default, new_scopes, new_call)
    IN /\ heap' = Restrict(new_heap, live)
       /\ billed' = Restrict(new_billed, live)
       /\ sessions' = new_sessions
       /\ default_session' = new_default
       /\ scopes' = new_scopes
       /\ call' = new_call

\* a session object whose messages list is the one list of all session objects
MutateShared(h, ref, self) ==
    [q \in DOMAIN h |-> IF q = ref THEN self
                        ELSE [h[q] EXCEPT !.messages = self.messages]]

\* the heap after the fields of session object ref were assigned or appended to:
\* every ChatSession instance holds its own messages list and params dict (the
\* field defaults are copied for each instance), so no other object changes
Mutate(h, ref, self) == [h EXCEPT ![ref] = self]

\* gen raises KeyError(f"No AI generation: {r}") for a KeyError, line 131-132
GenError(status) == IF status = "KeyError" THEN "KeyError: No AI generation" ELSE status

WithinBounds(ref) ==
    /\ Len(heap[ref].messages) < MaxMessages
    /\ billed[ref].n < MaxRequests

StreamWithinBounds(ref) == Len(heap[ref].messages) < MaxStreamed

\* the asserts on the tools without the one on their number
ToolAssertsFailAnyNumber(tools, input_schema, output_schema) ==
    \/ ~IsNone(input_schema) \/ ~IsNone(output_schema)
    \/ \E i \in 1..Len(tools) : tools[i].doc = ""

\* __call__, lines 126-131: one of the three asserts on a non-empty tools fails
ToolAssertsFail(tools, input_schema, output_schema) ==
    \/ ~IsNone(input_schema) \/ ~IsNone(output_schema)
    \/ \E i \in 1..Len(tools) : tools[i].doc = ""
    \/ Len(tools) > 9

\* AIChat.__call__ and AIChat.stream hand the work to gen, gen_with_tools and stream
\* of the session, AsyncAIChat.__call__ and AsyncAIChat.stream to gen_async,
\* gen_with_tools_async and stream_async
Async == cls = "AsyncAIChat"
SessGen(self, user_message, save_messages, output_schema, r) ==
    IF Async THEN GenAsyncResult(self, user_message, save_messages, output_schema, r)
    ELSE GenResult(self, user_message, save_messages, output_schema, r)
SessStreamChunk(content, line) ==
    IF Async THEN StreamAsyncChunk(content, line) ELSE StreamChunk(content, line)
SessStreamMessage(content) ==
    IF Async THEN StreamAsyncMessage(content) ELSE StreamMessage(content)
SessToolPromptFormat(tools) ==
    IF Async THEN ToolPromptFormatAsync(tools) ELSE ToolPromptFormat(tools)
SessProbeParams(tools) ==
    IF Async THEN ProbeParamsAsync(tools) ELSE ProbeParams(tools)
SessContextDict(result, selected_tool) ==
    IF Async THEN ContextDictAsync(result, selected_tool)
    ELSE ContextDict(result, selected_tool)
SessFallbackRequest(self, args) ==
    IF Async THEN FallbackRequestAsync(self, args) ELSE FallbackRequest(self, args)
SessCommitToolTurn(self, args, sent_message, response) ==
    IF Async THEN CommitToolTurnAsync(self, args, sent_message, response)
    ELSE CommitToolTurn(self, args, sent_message, response)
SessNewSystem(self, system) ==
    IF Async THEN NewSystemAsync(self, system) ELSE NewSystem(self, system)
SessNewPrompt(context_dict, prompt) ==
    IF Async THEN NewPromptAsync(context_dict, prompt) ELSE NewPrompt(context_dict, prompt)

\* AsyncAIChat.__call__ and AsyncAIChat.stream, their first statement: the client of
\* an async manager is made an AsyncClient when it still is a Client; AIChat has no
\* such statement
\* the client AIChat.__init__ makes: the first client of the manager
InitClient == [type |-> "Client", made |-> 1]

\* a switch that makes a new AsyncClient at every operation
AsyncSwitchAlways ==
    IF cls = "AsyncAIChat"
    THEN [type |-> "AsyncClient", made |-> client.made + 1]
    ELSE client

AsyncSwitch ==
    IF cls = "AsyncAIChat" /\ client.type = "Client"
    THEN [type |-> "AsyncClient", made |-> client.made + 1]
    ELSE client

\* AIChat.__call__ (on an async manager AsyncAIChat.__call__), up to the first
\* request handed to the transport
Call(args) ==
    /\ Idle
    /\ LET got == GetSession(args.id) IN
       IF got.status # "ok"
       THEN /\ Commit(heap, sessions, default_session, scopes,
                      Raised("call", args, None, got.status), billed)
            /\ sent' = <<>> /\ emitted' = <<>> /\ invoked' = <<>>
       ELSE LET ref == Val(got.ref)
                self == heap[ref]
                tools == IF IsNone(args.tools) THEN <<>> ELSE Val(args.tools)
                with_tools == Len(tools) > 0
                failed_assert ==
                    with_tools
                    /\ ToolAssertsFail(tools, args.input_schema, args.output_schema)
                req == IF with_tools
                       THEN PrepareRequest(self, args.prompt,
                                           Some(SessToolPromptFormat(tools)),
                                           Some(SessProbeParams(tools)), FALSE, None, None)
                       ELSE PrepareRequest(self, args.prompt, args.system, args.params,
                                           FALSE, args.input_schema, args.output_schema)
            IN /\ WithinBounds(ref)
               /\ emitted' = <<>> /\ invoked' = <<>>
               /\ IF failed_assert \/ req.status # "ok"
                  THEN /\ Commit(heap, sessions, default_session, scopes,
                                 Raised("call", args, got.ref,
                                        IF failed_assert THEN "AssertionError"
                                        ELSE req.status), billed)
                       /\ sent' = <<>>
                  ELSE /\ Commit(heap, sessions, default_session, scopes,
                                 [NoCall EXCEPT !.op = "call",
                                                !.pc = IF with_tools THEN "probe_post"
                                                       ELSE "gen_post",
                                                !.args = args, !.ref = got.ref,
                                                !.user_message = Some(req.user_message),
                                                !.pre = Some(self)],
                                 billed)
                       /\ sent' = <<req.data>>
    /\ client' = AsyncSwitch
    /\ UNCHANGED <<environ, cls, tasks, conn, disk, now, tzlocal>>

\* a transport that sends the request again after a failure
TransportFailureRetry ==
    /\ call.pc \in {"gen_post", "probe_post", "fallback_post", "context_post"}
    /\ sent' = Append(sent, sent[Len(sent)])
    /\ UNCHANGED <<heap, sessions, default_session, client, environ, cls, tasks, conn,
                   disk, now, tzlocal, scopes,
                   call, emitted, invoked, billed>>

\* client.post or r.json() raises: the exception propagates out of the operation
TransportFailure ==
    /\ call.pc \in {"gen_post", "probe_post", "fallback_post", "context_post",
                  "streaming"}
    /\ call' = [call EXCEPT !.pc = "raised", !.err = "TransportError"]
    /\ conn' = IF call.pc = "streaming" THEN conn - 1 ELSE conn
    /\ UNCHANGED <<heap, sessions, default_session, client, environ, cls, tasks,
                   disk, now, tzlocal, scopes,
                   sent, emitted, invoked, billed>>

\* gen, lines 110-134: the response r of a plain or structured generation arrives
GenReturn(r) ==
    /\ call.pc = "gen_post"
    /\ LET ref == Val(call.ref)
           res == SessGen(heap[ref], Val(call.user_message),
                            call.args.save_messages, call.args.output_schema, r)
       IN /\ heap' = Mutate(heap, ref, res.self)
          /\ billed' = Bill(ref, res.status, r)
          /\ call' = IF res.status = "ok"
                     THEN [call EXCEPT !.pc = "returned", !.ret = res.content,
                                       !.r = Some(r)]
                     ELSE [call EXCEPT !.pc = "raised", !.err = GenError(res.status),
                                       !.r = Some(r)]
    /\ UNCHANGED <<sessions, default_session, client, environ, cls, tasks, conn,
                   disk, now, tzlocal, scopes,
                   sent, emitted, invoked>>

\* a selected tool that is called a second time
ToolCallsTwice(selected_tool, prompt) ==
    LET called == [tool |-> selected_tool.name, prompt |-> prompt, requests |-> Len(sent)]
    IN <<called, called>>

\* gen_with_tools, line 220 (gen_with_tools_async, line 375): the calls of tool
\* callables, each with the number of requests sent when it is made
ToolCalls(selected_tool, prompt) ==
    <<[tool |-> selected_tool.name, prompt |-> prompt, requests |-> Len(sent)]>>

\* gen_with_tools, lines 193-236: the selection response r arrives; the index is
\* parsed, the selected tool (returning result) is invoked and the next request sent
ProbeReturn(r, result) ==
    /\ call.pc = "probe_post"
    /\ LET ref == Val(call.ref)
           args == call.args
           tools == Val(args.tools)
           res == SessGen(heap[ref], Val(call.user_message), Some(FALSE), None, r)
           self == res.self
           tool_idx == IF res.status = "ok" THEN ParseInt(Val(res.content)) ELSE None
           selected == IF IsNone(tool_idx) THEN None
                       ELSE PyIndex(tools, Val(tool_idx) - 1)
           context_dict == SessContextDict(result, Val(selected))
           raise(err) == /\ call' = [call EXCEPT !.pc = "raised", !.err = err,
                                                  !.r = Some(r)]
                         /\ UNCHANGED <<sent, invoked>>
       IN /\ heap' = Mutate(heap, ref, self)
          /\ billed' = Bill(ref, res.status, r)
          /\ IF res.status # "ok" THEN raise(GenError(res.status))
             ELSE IF IsNone(tool_idx) THEN raise("ValueError")
             ELSE IF Val(tool_idx) = 0
             THEN LET req == SessFallbackRequest(self, args)
                  IN /\ call' = [call EXCEPT !.pc = "fallback_post", !.r = Some(r),
                                             !.user_message = Some(req.user_message)]
                     /\ sent' = Append(sent, req.data)
                     /\ UNCHANGED invoked
             ELSE IF IsNone(selected) THEN raise("IndexError")
             ELSE /\ invoked' = invoked \o ToolCalls(Val(selected), args.prompt)
                  /\ IF "context" \notin DOMAIN context_dict
                     THEN /\ call' = [call EXCEPT !.pc = "raised", !.err = "KeyError",
                                                   !.r = Some(r)]
                          /\ UNCHANGED sent
                     ELSE LET req == PrepareRequest(self,
                                                    SessNewPrompt(context_dict, args.prompt),
                                                    Some(SessNewSystem(self, args.system)),
                                                    args.params, FALSE, None, None)
                          IN /\ call' = [call EXCEPT
                                            !.pc = "context_post", !.r = Some(r),
                                            !.user_message = Some(req.user_message),
                                            !.context_dict = Some(context_dict)]
                             /\ sent' = Append(sent, req.data)
    /\ UNCHANGED <<sessions, default_session, client, environ, cls, tasks, conn,
                   disk, now, tzlocal, scopes, emitted>>

\* gen_with_tools, lines 208-218: the response of the standard generation arrives
FallbackReturn(r) ==
    /\ call.pc = "fallback_post"
    /\ LET ref == Val(call.ref)
           res == SessGen(heap[ref], Val(call.user_message),
                            call.args.save_messages, None, r)
       IN /\ heap' = Mutate(heap, ref, res.self)
          /\ billed' = Bill(ref, res.status, r)
          /\ call' = IF res.status = "ok"
                     THEN [call EXCEPT !.pc = "returned", !.r = Some(r),
                                       !.ret = Some([response |-> Val(res.content),
                                                     tool |-> None])]
                     ELSE [call EXCEPT !.pc = "raised", !.err = GenError(res.status),
                                       !.r = Some(r)]
    /\ UNCHANGED <<sessions, default_session, client, environ, cls, tasks, conn,
                   disk, now, tzlocal, scopes,
                   sent, emitted, invoked>>

\* gen_with_tools, lines 230-245: the response of the context generation arrives
ContextReturn(r) ==
    /\ call.pc = "context_post"
    /\ LET ref == Val(call.ref)
           res == SessGen(heap[ref], Val(call.user_message), Some(FALSE), None, r)
           ctx == Val(call.context_dict)
           context_dict == [k \in DOMAIN ctx \cup {"response"} |->
                               IF k = "response" THEN Val(res.content) ELSE ctx[k]]
       IN /\ billed' = Bill(ref, res.status, r)
          /\ IF res.status = "ok"
             THEN /\ heap' = Mutate(heap, ref,
                                 SessCommitToolTurn(res.self, call.args,
                                                Val(call.user_message),
                                                Val(res.content)))
                  /\ call' = [call EXCEPT !.pc = "returned", !.r = Some(r),
                                          !.context_dict = Some(context_dict),
                                          !.ret = Some(context_dict)]
             ELSE /\ heap' = Mutate(heap, ref, res.self)
                  /\ call' = [call EXCEPT !.pc = "raised", !.err = GenError(res.status),
                                          !.r = Some(r)]
    /\ UNCHANGED <<sessions, default_session, client, environ, cls, tasks, conn,
                   disk, now, tzlocal, scopes,
                   sent, emitted, invoked>>

\* AIChat.stream and ChatGPTSession.stream, lines 145-156: the generator is driven
\* to the point where the streamed response is open
Stream(args) ==
    /\ Idle
    /\ emitted' = <<>> /\ invoked' = <<>>
    /\ LET got == GetSession(args.id) IN
       IF got.status # "ok"
       THEN /\ Commit(heap, sessions, default_session, scopes,
                      Raised("stream", args, None, got.status), billed)
            /\ sent' = <<>>
            /\ conn' = conn
       ELSE LET ref == Val(got.ref)
                self == heap[ref]
                req == PrepareRequest(self, args.prompt, args.system, args.params,
                                      TRUE, args.input_schema, None)
            IN /\ StreamWithinBounds(ref)
               /\ IF req.status # "ok"
                  THEN /\ Commit(heap, sessions, default_session, scopes,
                                 Raised("stream", args, got.ref, req.status), billed)
                       /\ sent' = <<>>
                       /\ conn' = conn
                  ELSE /\ Commit(heap, sessions, default_session, scopes,
                                 [NoCall EXCEPT !.op = "stream", !.pc = "streaming",
                                                !.args = args, !.ref = got.ref,
                                                !.user_message = Some(req.user_message),
                                                !.pre = Some(self)],
                                 billed)
                       /\ sent' = <<req.data>>
                       /\ conn' = conn + 1
    /\ client' = AsyncSwitch
    /\ UNCHANGED <<environ, cls, tasks, disk, now, tzlocal>>

\* stream, lines 157-165: one line of the response is read
StreamLine(line) ==
    /\ call.pc = "streaming"
    /\ LET res == SessStreamChunk(call.content, line)
       IN /\ emitted' = emitted \o res.events
          /\ call' = IF res.status = "ok"
                     THEN [call EXCEPT !.content = res.content,
                                       !.lines = Append(@, line)]
                     ELSE [call EXCEPT !.pc = "raised", !.err = res.status,
                                       !.lines = Append(@, line)]
          /\ conn' = IF res.status = "ok" THEN conn ELSE conn - 1
    /\ UNCHANGED <<heap, sessions, default_session, client, environ, cls, tasks,
                   disk, now, tzlocal, scopes,
                   sent, invoked, billed>>

\* stream, lines 167-175: the response ends; the turn is committed
StreamEnd ==
    /\ call.pc = "streaming"
    /\ LET ref == Val(call.ref)
           assistant_message == SessStreamMessage(call.content)
       IN /\ heap' = Mutate(heap, ref,
                         AddMessages(heap[ref], Val(call.user_message),
                                     assistant_message, call.args.save_messages))
          /\ call' = [call EXCEPT !.pc = "returned",
                                  !.ret = IF Async THEN None ELSE Some(assistant_message),
                                  !.lines = <<>>, !.content = <<>>]
          /\ conn' = conn - 1
    /\ UNCHANGED <<sessions, default_session, client, environ, cls, tasks,
                   disk, now, tzlocal, scopes,
                   sent, emitted, invoked, billed>>

\* stream, line 165: the generator is suspended at the yield of the last line read
Suspended ==
    /\ call.pc = "streaming"
    /\ Len(call.lines) > 0
    /\ SessStreamChunk(<<>>, call.lines[Len(call.lines)]).events # <<>>

\* a close that commits what was received so far
StreamCloseCommits ==
    /\ Suspended
    /\ heap' = Mutate(heap, Val(call.ref),
                   AddMessages(heap[Val(call.ref)], Val(call.user_message),
                               SessStreamMessage(call.content), call.args.save_messages))
    /\ call' = [call EXCEPT !.pc = "closed"]
    /\ conn' = conn - 1
    /\ UNCHANGED <<sessions, default_session, client, environ, cls, tasks,
                   disk, now, tzlocal, scopes,
                   sent, emitted, invoked, billed>>

\* stream, lines 149-165: the caller stops consuming and the generator is closed
\* (close(), or the collection of the abandoned generator): GeneratorExit is raised
\* at the yield, the with block closes the response, lines 167-175 do not run
StreamClose ==
    /\ Suspended
    /\ call' = [call EXCEPT !.pc = "closed"]
    /\ conn' = conn - 1
    /\ UNCHANGED <<heap, sessions, default_session, client, environ, cls, tasks,
                   disk, now, tzlocal, scopes,
                   sent, emitted, invoked, billed>>

Put(f, k, v) == [x \in DOMAIN f \cup {k} |-> IF x = k THEN v ELSE f[x]]
Del(f, k) == [x \in DOMAIN f \ {k} |-> f[x]]

\* the ids of the session objects alive
IdsInUse == {heap[r].id : r \in DOMAIN heap}

\* the arguments of a pool operation
IdArgs(id) == [NoArgs EXCEPT !.id = id]

\* AIChat.new_session(**kwargs): the session is registered under its id
NewSession(kwargs, uuid) ==
    /\ Idle
    /\ FreeRefs # {}
    /\ uuid \notin IdsInUse
    /\ LET made == NewSessionObject(kwargs, uuid, environ)
           ref == NewRef
       IN IF made.status # "ok"
          THEN Commit(heap, sessions, default_session, scopes,
                      [Raised("new_session", IdArgs(kwargs.id), None, made.status)
                          EXCEPT !.kwargs = kwargs], billed)
          ELSE Commit(Put(heap, ref, made.sess), Put(sessions, made.sess.id, ref),
                      default_session, scopes,
                      [Returned("new_session", IdArgs(kwargs.id), Some(ref), None)
                          EXCEPT !.kwargs = kwargs],
                      Put(billed, ref, Unbilled(made.sess.total_prompt_length,
                                                made.sess.total_completion_length,
                                                made.sess.total_length)))
    /\ sent' = <<>> /\ emitted' = <<>> /\ invoked' = <<>>
    /\ UNCHANGED <<client, environ, cls, tasks, conn, disk, now, tzlocal>>

\* a reset that also zeroes the running totals
ResetEverything(self) ==
    [self EXCEPT !.messages = <<>>, !.total_prompt_length = 0,
                 !.total_completion_length = 0, !.total_length = 0]

\* reset_session, line 94: sess.messages = []
ResetMessages(self) == [self EXCEPT !.messages = <<>>]

\* AIChat.reset_session
ResetSession(id) ==
    /\ Idle
    /\ LET got == GetSession(id) IN
       IF got.status # "ok"
       THEN Commit(heap, sessions, default_session, scopes,
                   Raised("reset_session", IdArgs(id), None,
                          got.status), billed)
       ELSE Commit(Mutate(heap, Val(got.ref), ResetMessages(heap[Val(got.ref)])),
                   sessions, default_session, scopes,
                   Returned("reset_session", IdArgs(id),
                            got.ref, None), billed)
    /\ sent' = <<>> /\ emitted' = <<>> /\ invoked' = <<>>
    /\ UNCHANGED <<client, environ, cls, tasks, conn, disk, now, tzlocal>>

\* AIChat.message_totals: [status, value]
MessageTotals(attr, id) ==
    LET got == GetSession(id) IN
    IF got.status # "ok" THEN [status |-> got.status, value |-> None]
    ELSE [status |-> "ok", value |-> Some(heap[Val(got.ref)][attr])]

\* the properties total_prompt_length, total_completion_length and total_length: a
\* property is read without arguments, so id is its default None
TotalProperty(attr) == MessageTotals(attr, None)

\* the property total_tokens, line 324: self.total_length is the value of the
\* property total_length, an int, and the body calls it with the builtin id
TotalTokens ==
    LET total_length == TotalProperty("total_length")
    IN IF total_length.status # "ok" THEN total_length
       ELSE [status |-> "TypeError", value |-> None]

TotalAttrs == {"total_prompt_length", "total_completion_length", "total_length"}

\* one of the four accessors is read
ReadTotal(attr) ==
    /\ Idle
    /\ LET res == IF attr = "total_tokens" THEN TotalTokens ELSE TotalProperty(attr)
       IN IF res.status # "ok"
          THEN Commit(heap, sessions, default_session, scopes,
                      Raised(attr, NoArgs, None, res.status), billed)
          ELSE Commit(heap, sessions, default_session, scopes,
                      Returned(attr, NoArgs, default_session, res.value), billed)
    /\ sent' = <<>> /\ emitted' = <<>> /\ invoked' = <<>>
    /\ UNCHANGED <<client, environ, cls, tasks, conn, disk, now, tzlocal>>

\* a delete_session that leaves the default pointer alone
DeleteSessionKeepsDefault(id) ==
    LET got == GetSession(id) IN
    IF got.status # "ok"
    THEN [status |-> got.status, sessions |-> sessions,
          default_session |-> default_session]
    ELSE LET sess == heap[Val(got.ref)]
         IN IF sess.id \in DOMAIN sessions
            THEN [status |-> "ok", sessions |-> Del(sessions, sess.id),
                  default_session |-> default_session]
            ELSE [status |-> "KeyError", sessions |-> sessions,
                  default_session |-> default_session]

\* AIChat.delete_session: [status, sessions, default_session] after the call
DeleteSessionResult(id) ==
    LET got == GetSession(id) IN
    IF got.status # "ok"
    THEN [status |-> got.status, sessions |-> sessions,
          default_session |-> default_session]
    ELSE LET sess == heap[Val(got.ref)]
             new_default ==
                 IF ~IsNone(default_session)
                    /\ sess.id = heap[Val(default_session)].id
                 THEN None ELSE default_session
         IN IF sess.id \in DOMAIN sessions
            THEN [status |-> "ok", sessions |-> Del(sessions, sess.id),
                  default_session |-> new_default]
            ELSE [status |-> "KeyError", sessions |-> sessions,
                  default_session |-> new_default]

DeleteSession(id) ==
    /\ Idle
    /\ LET res == DeleteSessionResult(id)
           op == IdArgs(id)
       IN Commit(heap, res.sessions, res.default_session, scopes,
                 IF res.status = "ok" THEN Returned("delete_session", op, None, None)
                 ELSE Raised("delete_session", op, None, res.status),
                 billed)
    /\ sent' = <<>> /\ emitted' = <<>> /\ invoked' = <<>>
    /\ UNCHANGED <<client, environ, cls, tasks, conn, disk, now, tzlocal>>

\* AIChat.session, lines 106-109: the with-block is entered
SessionEnter(kwargs, uuid) ==
    /\ Idle
    /\ FreeRefs # {}
    /\ uuid \notin IdsInUse
    /\ LET made == NewSessionObject(kwargs, uuid, environ)
           ref == NewRef
       IN IF made.status # "ok"
          THEN Commit(heap, sessions, default_session, scopes,
                      [Raised("session", IdArgs(kwargs.id), None, made.status)
                          EXCEPT !.kwargs = kwargs], billed)
          ELSE Commit(Put(heap, ref, made.sess), Put(sessions, made.sess.id, ref),
                      default_session, Append(scopes, ref),
                      [Returned("session", IdArgs(kwargs.id), Some(ref), None)
                          EXCEPT !.kwargs = kwargs],
                      Put(billed, ref, Unbilled(made.sess.total_prompt_length,
                                                made.sess.total_completion_length,
                                                made.sess.total_length)))
    /\ sent' = <<>> /\ emitted' = <<>> /\ invoked' = <<>>
    /\ UNCHANGED <<client, environ, cls, tasks, conn, disk, now, tzlocal>>

\* the ways a with-block is left
ExitPaths == {"normal", "return", "error"}

\* AIChat.session, lines 110-111: the innermost with-block is left by path; the
\* finally clause runs on each, an error of the block propagates after it, and
\* an error of delete_session takes the place of whatever was under way
SessionExit(path) ==
    /\ Idle
    /\ Len(scopes) > 0
    /\ LET sess == heap[scopes[Len(scopes)]]
           res == DeleteSessionResult(Some(sess.id))
           op == IdArgs(Some(sess.id))
       IN Commit(heap, res.sessions, res.default_session,
                 SubSeq(scopes, 1, Len(scopes) - 1),
                 IF res.status # "ok"
                 THEN [Raised("session_exit", op, None, res.status)
                          EXCEPT !.ret = Some(path)]
                 ELSE IF path = "error"
                 THEN [Raised("session_exit", op, None, "BlockError")
                          EXCEPT !.ret = Some(path)]
                 ELSE Returned("session_exit", op, None, Some(path)),
                 billed)
    /\ sent' = <<>> /\ emitted' = <<>> /\ invoked' = <<>>
    /\ UNCHANGED <<client, environ, cls, tasks, conn, disk, now, tzlocal>>

\* The clock counts ticks, Subsecond of them to a second.  In the zone "dst"
\* daylight saving time (two hours ahead of UTC) ends at the UTC second FallBack
\* and standard time (one hour ahead) begins; Hour is the length of an hour in
\* seconds, on the scale of the model.
Subsecond == 2
Hour == 1
FallBack == 1

Zones == {"UTC", "dst"}

\* the UTC offset of the zone at the UTC second s, as datetime.astimezone() finds it
UtcOffset(zone, s) ==
    IF zone = "UTC" THEN 0 ELSE IF s < FallBack THEN 2 * Hour ELSE Hour

\* the UTC offset dateutil.tz.tzlocal() gives the naive wall-clock second w; a wall
\* time that occurs twice is read as its first occurrence, in daylight saving time
WallOffset(zone, w) ==
    IF zone = "UTC" THEN 0 ELSE IF w < FallBack + 2 * Hour THEN 2 * Hour ELSE Hour

\* save_session, lines 259-262: received_at.astimezone().strftime("%Y-%m-%d %H:%M:%S")
Strftime(received_at) ==
    LET s == received_at \div Subsecond IN Str(s + UtcOffset(tzlocal, s))

\* load_session, lines 283-288: strptime, replace(tzinfo=tzlocal()), astimezone(utc);
\* None where strptime raises ValueError
Strptime(text) ==
    IF ~AllDigits(text) THEN None
    ELSE LET w == DigitsValue(text) IN Some((w - WallOffset(tzlocal, w)) * Subsecond)

\* the keys of m.model_dump(exclude_none=True)
DumpKeys(m) == {f \in MessageFields : f \in OptionalFields => ~IsNone(m[f])}

\* a message inside sess.model_dump(..., exclude_none=True)
MessageDict(m) ==
    [f \in DumpKeys(m) |-> IF f \in OptionalFields THEN Val(m[f]) ELSE m[f]]

\* the fields save_session leaves out of the dump
Excluded == {"auth", "api_url", "input_fields"}

\* a dump that keeps the credentials
SessDictWithAuth(sess) ==
    LET keys == {f \in DOMAIN sess \ {"api_url", "input_fields"} :
                    f \in {"recent_messages", "save_messages"} => ~IsNone(sess[f])}
    IN [f \in keys |->
           IF f = "messages"
           THEN [i \in 1..Len(sess.messages) |-> MessageDict(sess.messages[i])]
           ELSE IF f \in {"recent_messages", "save_messages"} THEN Val(sess[f])
           ELSE sess[f]]

\* save_session, lines 238-241: sess.model_dump(exclude=..., exclude_none=True)
SessDict(sess) ==
    LET keys == {f \in DOMAIN sess \ Excluded :
                    f \in {"recent_messages", "save_messages"} => ~IsNone(sess[f])}
    IN [f \in keys |->
           IF f = "messages"
           THEN [i \in 1..Len(sess.messages) |-> MessageDict(sess.messages[i])]
           ELSE IF f \in {"recent_messages", "save_messages"} THEN Val(sess[f])
           ELSE sess[f]]

\* save_session, lines 245-253: the columns of the CSV file
CsvFields ==
    {"role", "content", "received_at", "prompt_length", "completion_length",
     "total_length", "finish_reason"}

\* save_session, lines 256-263: the row DictWriter writes for a message of the dump;
\* None where it raises ValueError for a key that is no column
CsvWriteRow(message) ==
    IF ~(DOMAIN message \subseteq CsvFields) THEN None
    ELSE Some([f \in CsvFields |->
                  IF f \notin DOMAIN message THEN ""
                  ELSE IF f = "received_at" THEN Strftime(message[f])
                  ELSE IF f \in {"prompt_length", "completion_length", "total_length"}
                  THEN Str(message[f])
                  ELSE message[f]])

\* save_session, lines 244-263: [status, rows]; the rows before a refused message
\* are in the file
RECURSIVE CsvWrite(_)
CsvWrite(messages) ==
    IF Len(messages) = 0 THEN [status |-> "ok", rows |-> <<>>]
    ELSE LET row == CsvWriteRow(messages[1]) IN
         IF IsNone(row) THEN [status |-> "ValueError", rows |-> <<>>]
         ELSE LET rest == CsvWrite(Tail(messages))
              IN [status |-> rest.status, rows |-> <<Val(row)>> \o rest.rows]

\* save_session, lines 265-270: orjson.dumps(sess_dict), seen as the parsed JSON;
\* a datetime is written as a string
OrjsonDumps(sess_dict) ==
    [sess_dict EXCEPT !.messages =
        [i \in 1..Len(@) |-> [@[i] EXCEPT !.received_at = Str(@)]]]

\* save_session, lines 243-270: [status, written, file]
SaveResult(sess, format) ==
    IF format = "csv"
    THEN LET w == CsvWrite(SessDict(sess).messages)
         IN [status |-> w.status, written |-> TRUE, file |-> w.rows]
    ELSE IF format = "json"
    THEN [status |-> "ok", written |-> TRUE, file |-> OrjsonDumps(SessDict(sess))]
    ELSE [status |-> "ok", written |-> FALSE, file |-> <<>>]

\* AIChat.save_session; a file on the disk is kept with the session it was saved from
SaveSession(output_path, id, format) ==
    /\ Idle
    /\ LET got == GetSession(id)
           path == IF TruthyOptStr(output_path) THEN Val(output_path)
                   ELSE "chat_session." \o format
           info == Some([path |-> path, format |-> format])
       IN IF got.status # "ok"
          THEN /\ Commit(heap, sessions, default_session, scopes,
                         [Raised("save_session", IdArgs(id), None, got.status)
                             EXCEPT !.ret = info], billed)
               /\ disk' = disk
          ELSE LET sess == heap[Val(got.ref)]
                   res == SaveResult(sess, format)
               IN /\ Commit(heap, sessions, default_session, scopes,
                            [(IF res.status = "ok"
                              THEN Returned("save_session", IdArgs(id), got.ref, info)
                              ELSE Raised("save_session", IdArgs(id), got.ref, res.status))
                                EXCEPT !.ret = info, !.pre = Some(sess)], billed)
                  /\ disk' = IF res.written
                             THEN Put(disk, path, [file |-> res.file, saved |-> sess])
                             ELSE disk
    /\ sent' = <<>> /\ emitted' = <<>> /\ invoked' = <<>>
    /\ UNCHANGED <<client, environ, cls, tasks, conn, now, tzlocal>>

\* reading a text file opened without newline="": "\r" becomes "\n"
RECURSIVE UniversalNewlines(_)
UniversalNewlines(s) ==
    IF Len(s) = 0 THEN ""
    ELSE IF Len(s) >= 2 /\ SubSeq(s, 1, 2) = "\r\n"
    THEN "\n" \o UniversalNewlines(SubSeq(s, 3, Len(s)))
    ELSE (IF SubSeq(s, 1, 1) = "\r" THEN "\n" ELSE SubSeq(s, 1, 1))
         \o UniversalNewlines(SubSeq(s, 2, Len(s)))

\* load_session, lines 281-291: one row of the CSV file made a ChatMessage;
\* an empty field is None, and a None role or content fails validation
CsvRowMessage(row) ==
    LET field(v) == IF v = "" THEN None ELSE Some(UniversalNewlines(v))
        number(v) == IF v = "" THEN Some(None)
                     ELSE IF IsNone(ParseInt(v)) THEN None ELSE Some(ParseInt(v))
        pl == number(row.prompt_length)
        cl == number(row.completion_length)
        tl == number(row.total_length)
    IN IF row.role = "" \/ row.content = "" \/ IsNone(pl) \/ IsNone(cl) \/ IsNone(tl)
       THEN None
       ELSE Some([ChatMessage(UniversalNewlines(row.role), UniversalNewlines(row.content),
                              None, field(row.finish_reason), Val(pl), Val(cl), Val(tl))
                     EXCEPT !.received_at = Val(Strptime(row.received_at))])

\* ChatMessage(**d) for a message of a JSON file: None on a validation error
JsonMessage(d) ==
    IF ~({"role", "content"} \subseteq DOMAIN d) THEN None
    ELSE IF "received_at" \in DOMAIN d /\ IsNone(ParseInt(d.received_at)) THEN None
    ELSE Some([f \in MessageFields |->
                  IF f \in {"role", "content"} THEN d[f]
                  ELSE IF f = "received_at"
                  THEN (IF f \in DOMAIN d THEN Val(ParseInt(d[f])) ELSE now)
                  ELSE IF f \in DOMAIN d THEN Some(d[f]) ELSE None])

\* new_session(**sess_dict), line 302: the keyword arguments the persisted dict
\* makes; the messages are validated as the session is constructed
FileKwargs(sess_dict) ==
    LET has(k) == k \in DOMAIN sess_dict
        opt(k) == IF has(k) THEN Some(sess_dict[k]) ELSE None
        num(k) == IF has(k) THEN sess_dict[k] ELSE 0
    IN [id |-> opt("id"), model |-> opt("model"), api_key |-> opt("api_key"),
        system |-> opt("system"), params |-> opt("params"),
        recent_messages |-> opt("recent_messages"),
        save_messages |-> IF has("save_messages") THEN Some(Some(sess_dict.save_messages))
                          ELSE None,
        messages |-> IF has("messages")
                     THEN Some([i \in 1..Len(sess_dict.messages) |->
                                   Val(JsonMessage(sess_dict.messages[i]))])
                     ELSE None,
        totals |-> IF has("total_prompt_length") \/ has("total_completion_length")
                      \/ has("total_length")
                   THEN Some(<<num("total_prompt_length"), num("total_completion_length"),
                               num("total_length")>>)
                   ELSE None,
        input_fields |-> opt("input_fields")]

\* a merge in which the persisted value wins over the keyword argument
MergeKwargsFileWins(sess_dict, kwargs) ==
    [k \in DOMAIN sess_dict |-> IF IsNone(sess_dict[k]) THEN kwargs[k] ELSE sess_dict[k]]

\* load_session, lines 300-301: the keyword arguments laid over the persisted dict
MergeKwargs(sess_dict, kwargs) ==
    [k \in DOMAIN sess_dict |-> IF IsNone(kwargs[k]) THEN sess_dict[k] ELSE kwargs[k]]

\* the value of uuid4() in load_session's signature, fixed when the class is defined
LoadDefaultId == "uuid-load"

\* AIChat.load_session: file is the content of input_path
LoadSession(input_path, id, kwargs, file, uuid) ==
    /\ Idle
    /\ FreeRefs # {}
    /\ uuid \notin IdsInUse
    /\ LET op == IdArgs(Some(id))
           ref == NewRef
           raise(err) == Commit(heap, sessions, default_session, scopes,
                                [Raised("load_session", op, None, err)
                                    EXCEPT !.ret = Some(input_path), !.kwargs = kwargs],
                                billed)
           register(sess) ==
               Commit(Put(heap, ref, sess), Put(sessions, sess.id, ref),
                      default_session, scopes,
                      [Returned("load_session", op, Some(ref), Some(input_path))
                          EXCEPT !.kwargs = kwargs],
                      Put(billed, ref, Unbilled(sess.total_prompt_length,
                                                sess.total_completion_length,
                                                sess.total_length)))
       IN IF EndsWith(input_path, ".csv")
          THEN LET rows == [i \in 1..Len(file) |-> CsvRowMessage(file[i])]
                   made == NewSessionObject([kwargs EXCEPT !.id = Some(id)], uuid, environ)
               IN IF \E i \in 1..Len(file) : IsNone(Strptime(file[i].received_at))
                  THEN raise("ValueError")
                  ELSE IF \E i \in 1..Len(rows) : IsNone(rows[i])
                  THEN raise("ValidationError")
                  ELSE IF made.status # "ok" THEN raise(made.status)
                  ELSE register([made.sess EXCEPT
                                    !.messages = [i \in 1..Len(rows) |-> Val(rows[i])]])
          ELSE IF EndsWith(input_path, ".json")
          THEN IF "messages" \in DOMAIN file
                  /\ \E i \in 1..Len(file.messages) : IsNone(JsonMessage(file.messages[i]))
               THEN raise("ValidationError")
               ELSE LET made == NewSessionObject(MergeKwargs(FileKwargs(file), kwargs),
                                                 uuid, environ)
                    IN IF made.status # "ok" THEN raise(made.status)
                       ELSE register(made.sess)
          ELSE raise("AssertionError")
    /\ sent' = <<>> /\ emitted' = <<>> /\ invoked' = <<>>
    /\ UNCHANGED <<client, environ, cls, tasks, conn, disk, now, tzlocal>>

\* the clock advances by a tick
Tick ==
    /\ now < MaxClock
    /\ now' = now + 1
    /\ UNCHANGED <<heap, sessions, default_session, client, environ, scopes,
                   call, sent, emitted, invoked, billed, cls, tasks, conn, disk, tzlocal>>

\* the value of uuid4() in AIChat.__init__'s signature
InitDefaultId == "uuid-init"

\* AIChat.__init__ with console=False: the manager state, for the keyword arguments
\* that make the constructor succeed
InitManager(system, id, with_default, kwargs, env) ==
    LET made == NewSessionObject([kwargs EXCEPT !.system = Some(BuildSystem(system)),
                                                !.id = Some(id)], id, env)
    IN /\ environ = env
       /\ client = InitClient
       /\ conn = 0
       /\ disk = <<>>
       /\ scopes = <<>>
       /\ call = NoCall
       /\ sent = <<>> /\ emitted = <<>> /\ invoked = <<>>
       /\ IF with_default
          THEN /\ made.status = "ok"
               /\ heap = (1 :> made.sess)
               /\ sessions = (id :> 1)
               /\ default_session = Some(1)
               /\ billed = (1 :> Unbilled(made.sess.total_prompt_length,
                                          made.sess.total_completion_length,
                                          made.sess.total_length))
          ELSE /\ heap = <<>>
               /\ sessions = <<>>
               /\ default_session = None
               /\ billed = <<>>

\* AIChat.__init__ with console=False, for any keyword arguments: the client is made,
\* then new_session either registers the default session or raises out of the
\* constructor, and then there is no manager to operate on
Construct(system, id, with_default, kwargs, env) ==
    LET made == NewSessionObject([kwargs EXCEPT !.system = Some(BuildSystem(system)),
                                                !.id = Some(id)], id, env)
    IN IF with_default /\ made.status # "ok"
       THEN /\ environ = env
            /\ client = InitClient
            /\ conn = 0
            /\ disk = <<>>
            /\ scopes = <<>>
            /\ call = [Raised("__init__", IdArgs(Some(id)), None, made.status)
                          EXCEPT !.kwargs = kwargs]
            /\ sent = <<>> /\ emitted = <<>> /\ invoked = <<>>
            /\ heap = <<>>
            /\ sessions = <<>>
            /\ default_session = None
            /\ billed = <<>>
       ELSE InitManager(system, id, with_default, kwargs, env)

\* a manager exists: the constructor returned
Constructed == call.op # "__init__"

----------------------------------------------------------------------------
(* Inputs *)

\* the three running totals of a session object
Totals(self) == <<self.total_prompt_length, self.total_completion_length, self.total_length>>

QSchema == [name |-> "Q", doc |-> "A question.", fields |-> {"q"}]
ASchema == [name |-> "A", doc |-> "An answer.", fields |-> {"a"}]

Search == [name |-> "search", doc |-> "Search the web."]
Lookup == [name |-> "lookup", doc |-> "Look a word up."]

OptBools == {None, Some(TRUE), Some(FALSE)}

Question == StrPrompt("2+2?")

\* a call with a prompt and a save override
Ask(prompt, sv) == [NoArgs EXCEPT !.prompt = prompt, !.save_messages = sv]

PlainArgs ==
    {Ask(Question, sv) : sv \in OptBools}
    \cup {[NoArgs EXCEPT !.prompt = Question, !.system = Some("Be terse."),
                         !.params = Some([temperature |-> "0.0"])],
          [NoArgs EXCEPT !.prompt = Question, !.params = Some([max_tokens |-> "16"])],
          [NoArgs EXCEPT !.prompt = Question, !.params = Some(<<>>)]}

SchemaArgs ==
    {[NoArgs EXCEPT !.prompt = [type |-> "Q", text |-> "q"],
                    !.input_schema = Some(QSchema)],
     [NoArgs EXCEPT !.prompt = Question, !.output_schema = Some(ASchema),
                    !.save_messages = Some(TRUE)],
     [NoArgs EXCEPT !.prompt = Question, !.output_schema = Some(ASchema),
                    !.save_messages = Some(FALSE)],
     [NoArgs EXCEPT !.prompt = Question, !.output_schema = Some(ASchema)]}

ToolArgs ==
    {[NoArgs EXCEPT !.prompt = Question, !.tools = Some(<<Search, Lookup>>),
                    !.save_messages = sv] : sv \in OptBools}
    \cup {[NoArgs EXCEPT !.prompt = Question, !.tools = Some(<<Search, Lookup>>),
                         !.system = Some("Be terse."),
                         !.params = Some([temperature |-> "0.0"])]}

\* calls with tools that break a rule of __call__: a tool without a docstring,
\* ten tools, tools together with an input schema or an output schema
Undocumented == [name |-> "helper", doc |-> ""]
BadToolArgs ==
    {[NoArgs EXCEPT !.prompt = Question, !.tools = Some(<<Search, Undocumented>>)],
     [NoArgs EXCEPT !.prompt = Question,
                    !.tools = Some([i \in 1..10 |-> IF i % 2 = 1 THEN Search ELSE Lookup])],
     [NoArgs EXCEPT !.prompt = [type |-> "Q", text |-> "q"], !.tools = Some(<<Search>>),
                    !.input_schema = Some(QSchema)],
     [NoArgs EXCEPT !.prompt = Question, !.tools = Some(<<Search>>),
                    !.output_schema = Some(ASchema)]}

Answer == Completion("assistant", "4", "stop", Usage(10, 2, 12))
Structured == FunctionCompletion("{a}", "stop", Usage(7, 5, 12))
ErrorBody == [choices |-> None, usage |-> None]
\* a function call whose usage lacks completion_tokens
Partial ==
    FunctionCompletion("{a}", "stop",
                       [prompt_tokens |-> Some(Some(7)), completion_tokens |-> None,
                        total_tokens |-> Some(Some(12))])

Responses == {Answer, Structured, ErrorBody}

\* responses that lack a part: an empty choices list, a message without content, a
\* choice without finish_reason, a function call without arguments
EmptyChoices == [choices |-> Some(<<>>), usage |-> Some(Usage(10, 0, 10))]
NoContent ==
    [choices |-> Some(<<[message |-> Some([role |-> Some(Some("assistant")),
                                           content |-> None, function_call |-> None]),
                         finish_reason |-> Some(Some("stop"))]>>),
     usage |-> Some(Usage(10, 0, 10))]
NoFinishReason ==
    [choices |-> Some(<<[message |-> Some([role |-> Some(Some("assistant")),
                                           content |-> Some(Some("4")),
                                           function_call |-> None]),
                         finish_reason |-> None]>>),
     usage |-> Some(Usage(10, 2, 12))]
NoArguments ==
    [choices |-> Some(<<[message |-> Some([role |-> Some(Some("assistant")),
                                           content |-> Some(None),
                                           function_call |-> Some(Some([arguments |-> None]))]),
                         finish_reason |-> Some(Some("stop"))]>>),
     usage |-> Some(Usage(7, 0, 7))]
NoUsage == [Answer EXCEPT !.usage = None]
Malformed == {ErrorBody, EmptyChoices, NoContent, NoFinishReason, NoArguments, NoUsage, Partial}

ProbeResponses ==
    {Completion("assistant", c, "length", Usage(5, 1, 6)) : c \in {"0", "1", "2", "3", "x", "-1"}}
    \cup {ErrorBody}

ToolResults ==
    {[type |-> "str", text |-> "four"],
     [type |-> "dict", dict |-> [context |-> "four", source |-> "web"]]}

Lines == {"", "data: [DONE]", ContentLine("A"), ContentLine("B"), ContentLine(""),
          DataLine("\"role\":\"assistant\"")}

\* AIChat(system=..., console=False, **kwargs) with the API key in the environment
Manager(kwargs) ==
    /\ InitManager(Some("You are a calculator."), InitDefaultId, TRUE, kwargs,
                   Some("sk-env"))
    /\ cls = "AIChat"
    /\ now = Epoch
    /\ tasks = <<>>
    /\ tzlocal = "UTC"

SaveDefaults == {None, Some(Some(FALSE)), Some(None)}

----------------------------------------------------------------------------
(* Spec: plain and structured generations on the default session *)

Init ==
    \E sv \in SaveDefaults : Manager([NoKwargs EXCEPT !.save_messages = sv])

Next ==
    \/ \E args \in PlainArgs \cup SchemaArgs : Call(args)
    \/ \E r \in Responses : GenReturn(r)
    \/ TransportFailure
    \/ ResetSession(None)

Spec == Init /\ [][Next]_vars

----------------------------------------------------------------------------
(* SpecTools: generations with and without tools, and structured ones, on the *)
(* default session                                                            *)

NextTools ==
    \/ \E args \in ToolArgs \cup {Ask(Question, None),
                               [NoArgs EXCEPT !.prompt = Question,
                                              !.output_schema = Some(ASchema)]} : Call(args)
    \/ \E args \in BadToolArgs : Call(args)
    \/ \E r \in {Answer, Structured, Partial, ErrorBody} : GenReturn(r)
    \/ \E r \in ProbeResponses, result \in ToolResults : ProbeReturn(r, result)
    \/ \E r \in {Answer, ErrorBody} : FallbackReturn(r)
    \/ \E r \in {Answer, ErrorBody} : ContextReturn(r)
    \/ TransportFailure

SpecTools == Init /\ [][NextTools]_vars

----------------------------------------------------------------------------
(* SpecStream: streams and plain generations on the default session *)

InitStream ==
    \E sv \in {None, Some(Some(FALSE))} : Manager([NoKwargs EXCEPT !.save_messages = sv])

NextStream ==
    \/ \E sv \in OptBools : Stream(Ask(Question, sv))
    \/ \E line \in {"data: [DONE]", ContentLine("A"), ContentLine("B")} :
           /\ Len(call.lines) < MaxLines
           /\ StreamLine(line)
    \/ StreamEnd
    \/ TransportFailure
    \/ Call(Ask(Question, None))
    \/ GenReturn(Answer)

SpecStream == InitStream /\ [][NextStream]_vars

----------------------------------------------------------------------------
(* SpecSSE: the lines of a streamed response, on a session with no history *)

InitSSE == Manager(NoKwargs)

NextSSE ==
    \/ /\ Len(heap[Val(default_session)].messages) = 0
       /\ Stream(Ask(Question, None))
    \/ \E line \in Lines :
           /\ Len(call.lines) < MaxSseLines
           /\ StreamLine(line)
    \/ StreamEnd
    \/ ResetSession(None)

SpecSSE == InitSSE /\ [][NextSSE]_vars

----------------------------------------------------------------------------
(* SpecWindow: sessions with a window on their history *)

RecentChoices == {None, Some(0), Some(1), Some(2), Some(3)}

InitWindow ==
    \E recent \in RecentChoices : Manager([NoKwargs EXCEPT !.recent_messages = recent])

NextWindow ==
    \/ \E args \in {Ask(Question, None), Ask([type |-> "Q", text |-> "q"], None)} : Call(args)
    \/ \E r \in {Answer, Completion("assistant", "ok", "length", Usage(3, 1, 4))} : GenReturn(r)
    \/ Stream(Ask(Question, None))
    \/ \E line \in {"data: [DONE]", ContentLine("A")} :
           /\ Len(call.lines) < MaxLines
           /\ StreamLine(line)
    \/ StreamEnd
    \/ ResetSession(None)

SpecWindow == InitWindow /\ [][NextWindow]_vars

----------------------------------------------------------------------------
(* SpecPool: the manager's pool of sessions *)

PoolIds == {"a", ""}
Uuids == {"uuid-1"}
OptPoolIds == {None} \cup {Some(id) : id \in PoolIds}

PoolKwargs == {[NoKwargs EXCEPT !.id = id] : id \in OptPoolIds}
ScopedKwargs == {[NoKwargs EXCEPT !.id = id] : id \in {None, Some("a")}}

CsvRow(role, content, received_at, pl, cl, tl, finish_reason) ==
    [role |-> role, content |-> content, received_at |-> received_at,
     prompt_length |-> pl, completion_length |-> cl, total_length |-> tl,
     finish_reason |-> finish_reason]

CsvFiles ==
    {<<CsvRow("user", "2+2?", "0", "", "", "", ""),
       CsvRow("assistant", "4", "1", "10", "2", "12", "stop")>>}

JsonFiles ==
    {[id |-> "a", model |-> DefaultModel, system |-> DefaultSystem,
      params |-> [temperature |-> "0.7"], save_messages |-> TRUE,
      messages |-> <<>>, total_prompt_length |-> 10,
      total_completion_length |-> 2, total_length |-> 12]}

InitPool ==
    /\ \E with_default \in BOOLEAN :
           InitManager(None, "a", with_default, NoKwargs, Some("sk-env"))
    /\ cls = "AIChat"
    /\ now = Epoch
    /\ tasks = <<>>
    /\ tzlocal = "UTC"

NextPool ==
    \/ \E kwargs \in PoolKwargs, uuid \in Uuids : NewSession(kwargs, uuid)
    \/ \E id \in OptPoolIds : ResetSession(id)
    \/ \E id \in OptPoolIds : DeleteSession(id)
    \/ \E kwargs \in ScopedKwargs, uuid \in Uuids : SessionEnter(kwargs, uuid)
    \/ SessionExit("normal")
    \/ \E id \in {"a", LoadDefaultId}, file \in CsvFiles, uuid \in Uuids :
           LoadSession("chat_session.csv", id, [NoKwargs EXCEPT !.api_key = Some("sk-arg")],
                       file, uuid)
    \/ \E id \in {"b"}, file \in JsonFiles, uuid \in Uuids :
           LoadSession("chat_session.json", id, [NoKwargs EXCEPT !.api_key = Some("sk-arg")],
                       file, uuid)
    \/ \E id \in OptPoolIds :
           /\ GetSession(id).status = "ok" => billed[Val(GetSession(id).ref)].n < MaxPoolRequests
           /\ Call([Ask(Question, None) EXCEPT !.id = id])
    \/ GenReturn(Answer)

SpecPool == InitPool /\ [][NextPool]_vars

----------------------------------------------------------------------------
(* SpecShape: plain and structured generations whose responses lack a part *)

NextShape ==
    \/ \E args \in {Ask(Question, None),
                     [NoArgs EXCEPT !.prompt = Question,
                                    !.output_schema = Some(ASchema)]} : Call(args)
    \/ \E r \in Malformed \cup {Answer, Structured} : GenReturn(r)
    \/ TransportFailure

InitShape == Manager(NoKwargs)

SpecShape == InitShape /\ [][NextShape]_vars


NextScope ==
    \/ \E id \in OptPoolIds, uuid \in Uuids :
           SessionEnter([NoKwargs EXCEPT !.id = id], uuid)
    \/ \E path \in ExitPaths : SessionExit(path)
    \/ \E id \in {Some("uuid-1"), Some("a")} : DeleteSession(id)
    \/ \E id \in {None, Some("uuid-1")} :
           /\ GetSession(id).status = "ok" => billed[Val(GetSession(id).ref)].n < MaxPoolRequests
           /\ Call([Ask(Question, None) EXCEPT !.id = id])
    \/ \E r \in {Answer, ErrorBody} : GenReturn(r)
    \/ TransportFailure

SpecScope == InitPool /\ [][NextScope]_vars

Classes == {"AIChat", "AsyncAIChat"}

QuestionQ == [type |-> "Q", text |-> "q"]

----------------------------------------------------------------------------
(* SpecProbe: calls with one, two and nine tools *)

Tool(n) == [name |-> "tool" \o Str(n), doc |-> "Tool " \o Str(n) \o "."]
ToolLists == {<<Search>>, <<Lookup, Search>>, [i \in 1..9 |-> Tool(i)]}

ProbeArgs ==
    {[NoArgs EXCEPT !.prompt = Question, !.tools = Some(tools), !.save_messages = sv,
                    !.params = params] :
        tools \in ToolLists, sv \in {None, Some(TRUE)},
        params \in {None, Some([temperature |-> "1.0", max_tokens |-> "64"])}}

ProbeReplies ==
    {Completion("assistant", c, "length", Usage(5, 1, 6)) : c \in {"0", "1", "9"}}

InitProbe ==
    \E params \in {None, Some([top_p |-> "0.5"])} :
        Manager([NoKwargs EXCEPT !.params = params])

NextProbe ==
    \/ \E args \in ProbeArgs :
           /\ billed[Val(default_session)].n = 0
           /\ Call(args)
    \/ \E r \in ProbeReplies, result \in ToolResults : ProbeReturn(r, result)
    \/ FallbackReturn(Answer)
    \/ ContextReturn(Answer)

SpecProbe == InitProbe /\ [][NextProbe]_vars

----------------------------------------------------------------------------
(* SpecPairs: every operation on the history of one session that starts empty *)

PairArgs ==
    {Ask(Question, None), Ask(Question, Some(FALSE)),
     [NoArgs EXCEPT !.prompt = QuestionQ, !.input_schema = Some(QSchema)],
     [NoArgs EXCEPT !.prompt = Question, !.output_schema = Some(ASchema)],
     [NoArgs EXCEPT !.prompt = Question, !.tools = Some(<<Search, Lookup>>)]}

InitPairs == Manager(NoKwargs)

NextPairs ==
    \/ \E args \in PairArgs : Call(args)
    \/ \E r \in {Answer, Structured, ErrorBody} : GenReturn(r)
    \/ \E r \in ProbeReplies \cup {ErrorBody}, result \in ToolResults : ProbeReturn(r, result)
    \/ \E r \in {Answer, ErrorBody} : FallbackReturn(r)
    \/ \E r \in {Answer, ErrorBody} : ContextReturn(r)
    \/ Stream(Ask(Question, None))
    \/ \E line \in {"data: [DONE]", ContentLine("A")} :
           /\ Len(call.lines) < MaxLines
           /\ StreamLine(line)
    \/ StreamEnd
    \/ StreamClose
    \/ TransportFailure
    \/ ResetSession(None)

SpecPairs == InitPairs /\ [][NextPairs]_vars

----------------------------------------------------------------------------
(* SpecFields: sessions with their own input_fields and window *)

InputFieldsChoices ==
    {None, Some({"role", "content"}),
     Some({"role", "content", "name", "finish_reason", "total_length"})}

InitFields ==
    \E fields \in InputFieldsChoices, recent \in {None, Some(1), Some(3)} :
        Manager([NoKwargs EXCEPT !.input_fields = fields, !.recent_messages = recent])

NextFields ==
    \/ \E args \in {Ask(Question, None),
                     [NoArgs EXCEPT !.prompt = QuestionQ, !.input_schema = Some(QSchema)]} :
           Call(args)
    \/ GenReturn(Answer)
    \/ Stream(Ask(Question, None))
    \/ \E line \in {ContentLine("A")} :
           /\ Len(call.lines) < 1
           /\ StreamLine(line)
    \/ StreamEnd

SpecFields == InitFields /\ [][NextFields]_vars

----------------------------------------------------------------------------
(* SpecTotals: the manager's accessors of the running totals *)

InitTotals ==
    /\ \E with_default \in BOOLEAN, sv \in {None, Some(Some(FALSE))} :
           InitManager(None, "a", with_default, [NoKwargs EXCEPT !.save_messages = sv],
                       Some("sk-env"))
    /\ cls = "AIChat"
    /\ now = Epoch
    /\ tasks = <<>>
    /\ tzlocal = "UTC"

NextTotals ==
    \/ \E args \in {Ask(Question, None),
                     [NoArgs EXCEPT !.prompt = Question, !.output_schema = Some(ASchema)]} :
           Call(args)
    \/ \E r \in {Answer, Structured, ErrorBody} : GenReturn(r)
    \/ \E attr \in TotalAttrs \cup {"total_tokens"} : ReadTotal(attr)

SpecTotals == InitTotals /\ [][NextTotals]_vars

----------------------------------------------------------------------------
(* SpecAbort: streams consumed to their end and streams closed before it *)

InitAbort ==
    /\ \E sv \in {None, Some(Some(FALSE))} :
           InitManager(None, "a", TRUE, [NoKwargs EXCEPT !.save_messages = sv],
                       Some("sk-env"))
    /\ cls \in Classes
    /\ now = Epoch
    /\ tasks = <<>>
    /\ tzlocal = "UTC"

NextAbort ==
    \/ \E sv \in OptBools : Stream(Ask(Question, sv))
    \/ \E line \in {"", "data: [DONE]", ContentLine("A"), ContentLine("B")} :
           /\ Len(call.lines) < MaxLines
           /\ StreamLine(line)
    \/ StreamEnd
    \/ StreamClose
    \/ TransportFailure
    \/ Call(Ask(Question, None))
    \/ GenReturn(Answer)

SpecAbort == InitAbort /\ [][NextAbort]_vars

----------------------------------------------------------------------------
(* SpecAsync: the operations of a blocking manager and of an async one *)

AsyncArgs ==
    {Ask(Question, None), Ask(Question, Some(FALSE)),
     [NoArgs EXCEPT !.prompt = Question, !.output_schema = Some(ASchema)],
     [NoArgs EXCEPT !.prompt = Question, !.tools = Some(<<Search, Lookup>>),
                    !.system = Some("Be terse.")],
     [Ask(Question, None) EXCEPT !.id = Some("none")]}

InitAsync ==
    /\ InitManager(None, "a", TRUE, NoKwargs, Some("sk-env"))
    /\ cls \in Classes
    /\ now = Epoch
    /\ tasks = <<>>
    /\ tzlocal = "UTC"

NextAsync ==
    \/ \E args \in AsyncArgs : Call(args)
    \/ \E r \in {Answer, Structured, ErrorBody} : GenReturn(r)
    \/ \E r \in ProbeResponses, result \in ToolResults : ProbeReturn(r, result)
    \/ \E r \in {Answer, ErrorBody} : FallbackReturn(r)
    \/ \E r \in {Answer, ErrorBody} : ContextReturn(r)
    \/ \E args \in {Ask(Question, None), [Ask(Question, None) EXCEPT !.id = Some("none")]} :
           Stream(args)
    \/ \E line \in {"data: [DONE]", ContentLine("A"), ContentLine("")} :
           /\ Len(call.lines) < MaxLines
           /\ StreamLine(line)
    \/ StreamEnd
    \/ TransportFailure

SpecAsync == InitAsync /\ [][NextAsync]_vars

----------------------------------------------------------------------------
(* SpecCred: where the API key of a session comes from *)

\* an argument or an environment value: not there, empty, or a key
ApiKeyArgs == {None, Some(""), Some("sk-arg")}
EnvValues == {None, Some(""), Some("sk-env")}

CredKwargs == {[NoKwargs EXCEPT !.id = Some("b"), !.api_key = k] : k \in ApiKeyArgs}

InitCred ==
    /\ \E with_default \in BOOLEAN, k \in ApiKeyArgs, env \in EnvValues :
           Construct(None, "a", with_default, [NoKwargs EXCEPT !.api_key = k], env)
    /\ cls = "AIChat"
    /\ now = Epoch
    /\ tasks = <<>>
    /\ tzlocal = "UTC"

NextCred ==
    \/ \E kwargs \in CredKwargs, uuid \in Uuids : Constructed /\ NewSession(kwargs, uuid)
    \/ \E kwargs \in CredKwargs, uuid \in Uuids : Constructed /\ SessionEnter(kwargs, uuid)
    \/ Constructed /\ SessionExit("normal")
    \/ Constructed /\ DeleteSession(Some("b"))
    \/ \E kwargs \in CredKwargs, file \in CsvFiles, uuid \in Uuids :
           Constructed /\ LoadSession("chat_session.csv", "b", kwargs, file, uuid)
    \/ \E kwargs \in CredKwargs, file \in JsonFiles, uuid \in Uuids :
           Constructed /\ LoadSession("chat_session.json", "b", kwargs, file, uuid)
    \/ \E id \in {None, Some("b")} :
           /\ Constructed
           /\ GetSession(id).status = "ok" => billed[Val(GetSession(id).ref)].n < 1
           /\ Call([Ask(Question, None) EXCEPT !.id = id])
    \/ GenReturn(Answer)

SpecCred == InitCred /\ [][NextCred]_vars

----------------------------------------------------------------------------
(* SpecDisk: sessions saved to files and loaded from them, as the clock runs *)

\* the output path and format of a save; "txt" is a format save_session does not know
Saves ==
    {<<Some("s.csv"), "csv">>, <<None, "json">>, <<None, "txt">>}
Credential == [NoKwargs EXCEPT !.api_key = Some("sk-arg")]
LoadKwargs == {Credential, [Credential EXCEPT !.system = Some("Loaded.")]}

\* the default session has made no request and has no history
Unused ==
    /\ billed[Val(default_session)].n = 0
    /\ Len(heap[Val(default_session)].messages) = 0

InitDisk ==
    /\ InitManager(None, "a", TRUE, NoKwargs, Some("sk-env"))
    /\ cls = "AIChat"
    /\ now = Epoch
    /\ tasks = <<>>
    /\ tzlocal \in Zones

NextDisk ==
    \/ \E args \in {Ask(Question, None),
                     [NoArgs EXCEPT !.prompt = QuestionQ, !.input_schema = Some(QSchema)]} :
           /\ Unused
           /\ Call(args)
    \/ GenReturn(Answer)
    \/ /\ Unused
       /\ Stream(Ask(Question, None))
    \/ StreamEnd
    \/ Tick
    \/ \E save \in Saves : SaveSession(save[1], None, save[2])
    \/ SaveSession(None, Some("b"), "json")
    \/ \E path \in DOMAIN disk, kwargs \in LoadKwargs, uuid \in Uuids :
           /\ DOMAIN heap = {Val(default_session)}
           /\ LoadSession(path, "b", kwargs, disk[path].file, uuid)

SpecDisk == InitDisk /\ [][NextDisk]_vars

----------------------------------------------------------------------------
(* Properties *)

\* the operation at rest is a call through AIChat.__call__ that returned
CallReturned == call.op = "call" /\ call.pc = "returned"
PlainReturned ==
    CallReturned /\ IsNone(call.args.tools) /\ IsNone(call.args.output_schema)

\* the session the operation ran on, before it and now
Before == Val(call.pre)
Now == heap[Val(call.ref)]

\* the effective save decision of a call, from its override and the session's default
Decision(override, default) ==
    IF override = Some(TRUE) THEN TRUE
    ELSE IF override = Some(FALSE) THEN FALSE
    ELSE default = Some(TRUE)

CallDecision == Decision(call.args.save_messages, Before.save_messages)

\* C1: add_messages appends the user message and then the assistant message if and
\* only if the effective save decision is true (the override when it is a boolean,
\* the session's default otherwise); otherwise the history is unchanged.  Stated of
\* the add_messages call of every plain generation that returned.
C1_SaveDecision ==
    PlainReturned =>
        IF CallDecision
        THEN Now.messages
                 = Before.messages \o <<Val(call.user_message), AssistantMessage(Val(call.r))>>
        ELSE Now.messages = Before.messages

\* C1: override true with default false saved the turn
C1_Witness ==
    /\ PlainReturned
    /\ call.args.save_messages = Some(TRUE)
    /\ Before.save_messages = Some(FALSE)
    /\ Len(Now.messages) = Len(Before.messages) + 2
    /\ Now.messages[Len(Now.messages)].role = "assistant"

\* C5: a plain generation (no output schema) that succeeds with a true save decision
\* returns the content text of the response and grows the history by exactly two
\* messages: the user message of the request, then an assistant message with the
\* content, finish reason and three usage counters of the response.  On an empty
\* session with zero totals the response "4" with usage (10,2,12) gives the result
\* "4", a history of length 2 and totals (10,2,12).
C5_PlainGen ==
    PlainReturned /\ CallDecision =>
        LET r == Val(call.r)
            ch == Val(r.choices)[1]
            u == Val(r.usage)
            h == Len(Before.messages)
            request == sent[Len(sent)].messages
        IN /\ call.ret = Val(Val(ch.message).content)
           /\ Len(Now.messages) = h + 2
           /\ SubSeq(Now.messages, 1, h) = Before.messages
           /\ ModelDump(Now.messages[h + 1], Now.input_fields) = request[Len(request)]
           /\ Now.messages[h + 2].role = Val(Val(Val(ch.message).role))
           /\ Some(Some(Now.messages[h + 2].content)) = Val(ch.message).content
           /\ Some(Now.messages[h + 2].finish_reason) = ch.finish_reason
           /\ Some(Now.messages[h + 2].prompt_length) = u.prompt_tokens
           /\ Some(Now.messages[h + 2].completion_length) = u.completion_tokens
           /\ Some(Now.messages[h + 2].total_length) = u.total_tokens
           /\ (h = 0 /\ Totals(Before) = <<0, 0, 0>> /\ r = Answer =>
                  /\ call.ret = Some("4")
                  /\ Len(Now.messages) = 2
                  /\ Totals(Now) = <<10, 2, 12>>)

\* C5: the first generation on an empty session returned "4"
C5_Witness ==
    /\ PlainReturned /\ CallDecision
    /\ Before.messages = <<>>
    /\ call.ret = Some("4")
    /\ Len(Now.messages) = 2
    /\ Now.messages[2].prompt_length = Some(10)
    /\ Totals(Now) = <<10, 2, 12>>

\* C2: on every session object whose gen responses were all processed without an
\* exception, the running totals are the totals it was constructed with plus the
\* summed usage of the gen requests made on it (plain, structured, selection and
\* context requests alike), whether or not the request's turn was saved.
C2_TotalsAreSums ==
    \A ref \in DOMAIN heap :
        billed[ref].clean =>
            Totals(heap[ref]) = <<billed[ref].p0 + billed[ref].p,
                                  billed[ref].c0 + billed[ref].c,
                                  billed[ref].t0 + billed[ref].t>>

\* C2: a tool call that saved nothing returned: its two requests are in the totals
C2_Witness ==
    /\ CallReturned /\ ~IsNone(call.context_dict)
    /\ call.args.save_messages = Some(FALSE)
    /\ Now.messages = <<>>
    /\ billed[Val(call.ref)].n = 2
    /\ billed[Val(call.ref)].clean
    /\ Totals(Now) = <<15, 3, 18>>

\* the content text of a response
ResponseContent(r) == Val(Val(Val(Val(r.choices)[1].message).content))

\* a call with tools returned after a tool was selected / after index 0
ToolReturned == CallReturned /\ ~IsNone(call.context_dict)
FallbackReturned ==
    CallReturned /\ ~IsNone(call.args.tools) /\ IsNone(call.context_dict)

\* every message stored in any session
Stored == UNION {{heap[ref].messages[i] : i \in 1..Len(heap[ref].messages)} :
                    ref \in DOMAIN heap}

\* C6: when gen_with_tools selected a tool and the save decision is true, the
\* history has grown by exactly one pair: a user message with the original prompt
\* and an assistant message with the final response text (and by nothing when the
\* decision is false).  Nothing is stored while the call is under way, and no
\* stored message is a system message, a selection reply (finish reason "length"
\* from the one-token selection request), the tool listing or a 'Context: ...'
\* prompt.
C6_ToolTurn ==
    /\ ToolReturned =>
           IF CallDecision
           THEN Now.messages
                    = Before.messages
                      \o <<ChatMessage("user", call.args.prompt.text,
                                       None, None, None, None, None),
                           ChatMessage("assistant", ResponseContent(Val(call.r)),
                                       None, None, None, None, None)>>
           ELSE Now.messages = Before.messages
    /\ call.pc \in {"probe_post", "context_post", "fallback_post"} =>
           Now.messages = Before.messages
    /\ \A m \in Stored :
           /\ m.role # "system"
           /\ m.finish_reason # Some("length")
           /\ ~StartsWith(m.content, tool_prompt)
           /\ ~StartsWith(m.content, "Context: ")

\* C6: a saving tool call returned after sending the augmented prompt
C6_Witness ==
    /\ ToolReturned /\ CallDecision
    /\ Len(invoked) = 1
    /\ Len(sent) = 2
    /\ StartsWith(sent[2].messages[Len(sent[2].messages)].content, "Context: ")
    /\ StartsWith(sent[1].messages[1].content, tool_prompt)
    /\ Len(Now.messages) = Len(Before.messages) + 2
    /\ Now.messages[Len(Now.messages) - 1].content = "2+2?"
    /\ Now.messages[Len(Now.messages)].content = "4"

\* C7: when the selection returned index 0, no tool was invoked, the second request
\* is the request of an ordinary gen with the original prompt and the caller's
\* system and params (the session's where the caller gave none), the turn is
\* persisted as a plain gen persists it under the caller's save decision, and the
\* returned map has tool = null and response = the content of that generation.
C7_Fallback ==
    FallbackReturned =>
        LET args == call.args
            r == Val(call.r)
            request == sent[2]
        IN /\ invoked = <<>>
           /\ Len(sent) = 2
           /\ request = PrepareRequest(Before, args.prompt, args.system, args.params,
                                       FALSE, None, None).data
           /\ request.messages[Len(request.messages)] =
                  [role |-> "user", content |-> args.prompt.text]
           /\ request.messages[1] =
                  [role |-> "system",
                   content |-> IF IsNone(args.system) THEN Before.system
                               ELSE Val(args.system)]
           /\ request.params = IF IsNone(args.params) THEN Before.params
                               ELSE Val(args.params)
           /\ Now.messages =
                  IF CallDecision
                  THEN Before.messages \o <<Val(call.user_message), AssistantMessage(r)>>
                  ELSE Before.messages
           /\ Val(call.user_message) =
                  ChatMessage("user", args.prompt.text, None, None, None, None, None)
           /\ call.ret = Some([response |-> ResponseContent(r), tool |-> None])

\* C7: index 0 with a system and params of the caller's, saved
C7_Witness ==
    /\ FallbackReturned /\ CallDecision
    /\ call.args.system = Some("Be terse.")
    /\ sent[2].messages[1].content = "Be terse."
    /\ sent[2].params = [temperature |-> "0.0"]
    /\ invoked = <<>>
    /\ Val(call.ret).tool = None
    /\ Val(call.ret).response = "4"
    /\ Len(Now.messages) = Len(Before.messages) + 2

\* a stream was consumed to its end
StreamReturned == call.op = "stream" /\ call.pc = "returned"

\* the deltas of the events emitted so far, in order
EmittedDeltas == [k \in 1..Len(emitted) |-> emitted[k].delta]

\* C8: after a stream was consumed to its end, the history is the history before
\* the stream followed, when the save decision is true, by exactly the request's
\* user message and one assistant message whose content is the concatenation of
\* the emitted deltas in order and which has no usage counters; with a false
\* decision it is unchanged; and the three running totals are what they were.
C8_StreamCommit ==
    StreamReturned =>
        LET request == sent[1].messages IN
        /\ Now.messages =
               IF CallDecision
               THEN Before.messages
                    \o <<Val(call.user_message),
                         ChatMessage("assistant", Join(EmittedDeltas),
                                     None, None, None, None, None)>>
               ELSE Before.messages
        /\ ModelDump(Val(call.user_message), Now.input_fields) = request[Len(request)]
        /\ Totals(Now) = Totals(Before)

\* C8: a stream of two deltas was saved on a session that had totals
C8_Witness ==
    /\ StreamReturned /\ CallDecision
    /\ Len(emitted) = 2
    /\ Len(Now.messages) = Len(Before.messages) + 2
    /\ Now.messages[Len(Now.messages)].content = "AB"
    /\ Now.messages[Len(Now.messages)].total_length = None
    /\ Totals(Now) = <<10, 2, 12>>

\* the texts a line of the response can carry
Texts == {"A", "B"}

\* the non-empty text deltas carried by the lines, in arrival order
RECURSIVE Carried(_)
Carried(lines) ==
    IF Len(lines) = 0 THEN <<>>
    ELSE LET here == {t \in Texts : lines[Len(lines)] = ContentLine(t)}
         IN Carried(SubSeq(lines, 1, Len(lines) - 1))
            \o (IF here = {} THEN <<>> ELSE <<CHOOSE t \in here : TRUE>>)

\* C9: while a stream is read, the events emitted so far are one per line that
\* carries a non-empty text delta, in arrival order, and nothing for a blank line,
\* the terminator or a line without a delta; the k-th event has delta = the k-th
\* delta and response = the concatenation of the first k deltas.  For A, B, [DONE]
\* the events are {A, A}, {B, AB}.
C9_Events ==
    call.op = "stream" /\ call.pc = "streaming" =>
        LET deltas == Carried(call.lines) IN
        /\ Len(emitted) = Len(deltas)
        /\ \A k \in 1..Len(emitted) :
               emitted[k] = [delta |-> deltas[k], response |-> Join(SubSeq(deltas, 1, k))]
        /\ (call.lines = <<ContentLine("A"), ContentLine("B"), "data: [DONE]">> =>
               emitted = <<[delta |-> "A", response |-> "A"],
                           [delta |-> "B", response |-> "AB"]>>)

\* C9: the lines A, B, [DONE] were read
C9_Witness ==
    /\ call.op = "stream" /\ call.pc = "streaming"
    /\ call.lines = <<ContentLine("A"), ContentLine("B"), "data: [DONE]">>
    /\ Len(emitted) = 2
    /\ emitted[2].response = "AB"

\* a request was built on the session in Before and is in sent
RequestBuilt ==
    /\ call.op \in {"call", "stream"}
    /\ ~IsNone(call.pre)
    /\ Len(sent) > 0

\* the window of a session: its last recent_messages stored messages, or all of
\* them when recent_messages is unset
Window(self) ==
    LET h == Len(self.messages) IN
    IF IsNone(self.recent_messages) THEN self.messages
    ELSE SubSeq(self.messages, h - Min(h, Val(self.recent_messages)) + 1, h)

\* C3: for history length h and recent_messages k >= 0 (k = 0 included) the request
\* has exactly min(h,k)+2 entries, and h+2 entries when recent_messages is unset.
C3_RequestLength ==
    RequestBuilt =>
        LET h == Len(Before.messages) IN
        Len(sent[1].messages) =
            IF IsNone(Before.recent_messages) THEN h + 2
            ELSE Min(h, Val(Before.recent_messages)) + 2

\* C4: in every request the system message is first, the new user message is last
\* and the entries between them are exactly the window in stored order, for every
\* window size including 0; building the request leaves the stored history alone.
C4_RequestShape ==
    RequestBuilt =>
        LET request == sent[1].messages
            window == Window(Before)
        IN /\ request[1].role = "system"
           /\ request[Len(request)] = ModelDump(Val(call.user_message), Before.input_fields)
           /\ SubSeq(request, 2, Len(request) - 1)
                  = [i \in 1..Len(window) |-> ModelDump(window[i], Before.input_fields)]
           /\ (call.pc \in {"gen_post", "streaming"} => Now.messages = Before.messages)

\* C10: whenever default_session is set, its id is a key of sessions; and a
\* delete_session of the default that returned has cleared the pointer.
C10_DefaultRegistered ==
    /\ ~IsNone(default_session) => heap[Val(default_session)].id \in DOMAIN sessions
    /\ (call.op = "delete_session" /\ call.pc = "returned" /\ IsNone(call.args.id)) =>
           IsNone(default_session)

\* C10: the default was deleted while another session stayed in the pool
C10_Witness ==
    /\ call.op = "delete_session" /\ call.pc = "returned"
    /\ IsNone(default_session)
    /\ "a" \notin DOMAIN sessions
    /\ DOMAIN sessions # {}

\* an operation of the manager starts with this step; a pool operation also ends
Starts(op) == Idle /\ call'.op = op

\* C11: delete_session(id) removes exactly the resolved session's key and leaves the
\* other entries in place; it clears default_session if and only if the deleted
\* session was the default (has the default's id); for an id that is not a key it
\* fails with the unknown-session error and changes neither sessions nor the default.
C11_DeleteSession ==
    [][Starts("delete_session") =>
          LET id == call'.args.id IN
          IF ~IsNone(id)
          THEN IF Val(id) \in DOMAIN sessions
               THEN /\ call'.pc = "returned"
                    /\ sessions' = Del(sessions, Val(id))
                    /\ default_session' =
                           IF ~IsNone(default_session)
                              /\ heap[Val(default_session)].id = Val(id)
                           THEN None ELSE default_session
               ELSE /\ call'.pc = "raised"
                    /\ call'.err = "KeyError"
                    /\ UNCHANGED <<sessions, default_session>>
          ELSE IF ~IsNone(default_session)
               THEN /\ call'.pc = "returned"
                    /\ sessions' = Del(sessions, heap[Val(default_session)].id)
                    /\ default_session' = None
               ELSE /\ call'.pc = "raised"
                    /\ call'.err = "ValueError"
                    /\ UNCHANGED <<sessions, default_session>>]_vars

\* C12: a reset_session that returns empties the messages of the resolved session and
\* changes no other field of it (totals, id, system, model, params, recent_messages,
\* save_messages, credentials), no other session, and neither the sessions map nor
\* the default pointer.
C12_ResetSession ==
    [][Starts("reset_session") /\ call'.pc = "returned" =>
          LET ref == Val(call'.ref) IN
          /\ call'.ref = (IF TruthyOptStr(call'.args.id)
                          THEN Some(sessions[Val(call'.args.id)])
                          ELSE default_session)
          /\ heap'[ref].messages = <<>>
          /\ \A f \in DOMAIN heap[ref] \ {"messages"} : heap'[ref][f] = heap[ref][f]
          /\ \A q \in DOMAIN heap' \ {ref} : heap'[q] = heap[q]
          /\ UNCHANGED <<sessions, default_session>>]_vars

\* C12: a session with a saved turn and totals was reset
C12_Witness ==
    /\ call.op = "reset_session" /\ call.pc = "returned"
    /\ Now.messages = <<>>
    /\ Totals(Now) = <<10, 2, 12>>
    /\ Now.save_messages = Some(TRUE)

\* C13: a scoped session is registered under its id when its block is entered, and
\* once the block was left - normally, by an early return or by an error, which
\* propagates - its id is no key of sessions.
C13_ScopedSession ==
    /\ call.op = "session" /\ call.pc = "returned" =>
           /\ Now.id \in DOMAIN sessions
           /\ sessions[Now.id] = Val(call.ref)
    /\ call.op = "session_exit" =>
           /\ Val(call.args.id) \notin DOMAIN sessions
           /\ (call.ret = Some("error") => call.pc = "raised")

\* the operations that resolve their target session through get_session
LookupOps == {"call", "stream", "reset_session", "delete_session"}

\* C14: an operation given an id works on sessions[id], and fails with the
\* unknown-session error (KeyError) when the id is no key; given no id it works on
\* default_session, and fails with the no-default-session error (ValueError) when
\* the default is unset.  A failed lookup ends the operation before anything else:
\* nothing is sent and no session, sessions entry or default pointer changes.
C14_GetSession ==
    [][Idle /\ call'.op \in LookupOps =>
          LET id == call'.args.id
              nothing_done ==
                  /\ call'.pc = "raised"
                  /\ sent' = <<>>
                  /\ \A q \in DOMAIN heap' : heap'[q] = heap[q]
                  /\ UNCHANGED <<sessions, default_session>>
              target(ref) ==
                  IF call'.op = "delete_session"
                  THEN sessions' = Del(sessions, heap[ref].id)
                  ELSE call'.ref = Some(ref)
          IN IF ~IsNone(id)
             THEN IF Val(id) \in DOMAIN sessions
                  THEN target(sessions[Val(id)])
                  ELSE call'.err = "KeyError" /\ nothing_done
             ELSE IF ~IsNone(default_session)
                  THEN target(Val(default_session))
                  ELSE call'.err = "ValueError" /\ nothing_done]_vars

\* a call with tools breaks a rule that can be checked without the provider: a tool
\* has no description, there are more than 9 tools, or a schema comes with the tools
LocalViolation(args) ==
    /\ ~IsNone(args.tools)
    /\ Len(Val(args.tools)) > 0
    /\ \/ \E i \in 1..Len(Val(args.tools)) : Val(args.tools)[i].doc = ""
       \/ Len(Val(args.tools)) > 9
       \/ ~IsNone(args.input_schema)
       \/ ~IsNone(args.output_schema)

\* C15: a call with tools that breaks a local rule fails in the step that starts it:
\* no request is sent, no tool is invoked, and the history and totals of every
\* session are as before.
C15_FailFast ==
    [][Starts("call") /\ LocalViolation(call'.args) =>
          /\ call'.pc = "raised"
          /\ call'.err = "AssertionError"
          /\ sent' = <<>>
          /\ invoked' = <<>>
          /\ \A q \in DOMAIN heap' : heap'[q] = heap[q]]_vars

\* C15: ten tools were refused on a session with history and totals
C15_Witness ==
    /\ call.op = "call" /\ call.pc = "raised"
    /\ call.err = "AssertionError"
    /\ Len(Val(call.args.tools)) = 10
    /\ sent = <<>>
    /\ Len(Now.messages) = 2
    /\ Totals(Now) = <<10, 2, 12>>

\* C16: when the selection response of a call with N tools parses to anything but an
\* integer in 0..N, the call ends in an error in that step: no tool is invoked and
\* nothing is added to the history.
C16_IndexContract ==
    [][(/\ call.pc = "probe_post"
        /\ ~IsNone(call'.r)
        /\ ~IsNone(Val(call'.r).choices)) =>
          LET N == Len(Val(call.args.tools))
              idx == ParseInt(ResponseContent(Val(call'.r)))
              ref == Val(call.ref)
          IN (IsNone(idx) \/ Val(idx) \notin 0..N) =>
                 /\ call'.pc = "raised"
                 /\ invoked' = <<>>
                 /\ heap'[ref].messages = heap[ref].messages]_vars

\* a response lacks the shape gen expects: no choices entry, no message, no content
\* (or, with an output schema, no function_call arguments), no finish_reason
\* (without an output schema), or no usage counters
LacksShape(r, output_schema) ==
    \/ IsNone(r.choices)
    \/ IsNone(r.usage)
    \/ \E k \in {"prompt_tokens", "completion_tokens", "total_tokens"} :
           IsNone(Val(r.usage)[k])
    \/ Len(Val(r.choices)) = 0
    \/ IsNone(Val(r.choices)[1].message)
    \/ LET ch == Val(r.choices)[1]
           msg == Val(ch.message)
       IN IF IsNone(output_schema)
          THEN IsNone(msg.content) \/ IsNone(ch.finish_reason)
          ELSE \/ IsNone(msg.function_call)
               \/ IsNone(Val(msg.function_call))
               \/ IsNone(Val(Val(msg.function_call)).arguments)

\* C17: whenever the response of a gen call lacks the expected shape, the call has
\* failed with the missing-completion error (the KeyError that carries the payload)
\* and has returned nothing.
C17_MissingCompletion ==
    (/\ call.op = "call"
     /\ IsNone(call.args.tools)
     /\ ~IsNone(call.r)
     /\ LacksShape(Val(call.r), call.args.output_schema)) =>
        /\ call.pc = "raised"
        /\ call.err = "KeyError: No AI generation"
        /\ IsNone(call.ret)

\* C18: the step that starts a plain gen call sends exactly one request when the call
\* gets as far as the transport (and none when it fails before), and no later step
\* of the call - its response, a malformed response, a transport failure - sends
\* another: the failure ends the call.
C18_NoRetry ==
    [][call'.op = "call" /\ IsNone(call'.args.tools) =>
          IF Idle
          THEN /\ Len(sent') = (IF call'.pc = "gen_post" THEN 1 ELSE 0)
               /\ call'.pc \in {"gen_post", "raised"}
          ELSE /\ call.pc = "gen_post"
               /\ call'.pc \in {"returned", "raised"}
               /\ sent' = sent]_vars

\* C18: a plain call failed at the transport after its one request
C18_Witness ==
    /\ call.op = "call" /\ IsNone(call.args.tools)
    /\ call.pc = "raised"
    /\ call.err = "TransportError"
    /\ Len(sent) = 1

\* a generation with an output schema returned
StructuredReturned ==
    CallReturned /\ IsNone(call.args.tools) /\ ~IsNone(call.args.output_schema)

\* C19: a generation with an output schema that succeeds returns the parsed
\* arguments of the function call and leaves the history as it was, whatever the
\* save override and the session's save default are; the three totals have grown
\* by the usage of the response.
C19_StructuredOutput ==
    StructuredReturned =>
        LET r == Val(call.r)
            u == Val(r.usage)
            fc == Val(Val(Val(Val(r.choices)[1].message).function_call))
        IN /\ call.ret = OrjsonLoads(Val(fc.arguments))
           /\ ~IsNone(call.ret)
           /\ Now.messages = Before.messages
           /\ Totals(Now) = <<Before.total_prompt_length + Val(Val(u.prompt_tokens)),
                              Before.total_completion_length + Val(Val(u.completion_tokens)),
                              Before.total_length + Val(Val(u.total_tokens))>>

\* C19: a structured generation asked to save, on a saving session with a turn
C19_Witness ==
    /\ StructuredReturned
    /\ call.args.save_messages = Some(TRUE)
    /\ Before.save_messages = Some(TRUE)
    /\ Len(Now.messages) = 2
    /\ call.ret = Some([object |-> "a"])
    /\ Totals(Now) = <<17, 7, 24>>

\* the generation parameters a request body carries, as a set of entries
Entries(d) == {<<k, d[k]>> : k \in DOMAIN d}

\* C20: the generation parameters in the request body of a call are exactly the
\* entries of the params override whenever an override is given (no entry of the
\* session's stored params unless the override has it too), and the session's
\* stored params only when no override is given.
C20_ParamsShadow ==
    RequestBuilt /\ call.op = "call" /\ IsNone(call.args.tools) =>
        Entries(sent[1].params) =
            IF IsNone(call.args.params) THEN Entries(Before.params)
            ELSE Entries(Val(call.args.params))

\* the UTC second an instant falls in
Second(t) == t \div Subsecond

\* load_session has run on a CSV file that save_session wrote
CsvReloaded ==
    /\ call.op = "load_session"
    /\ EndsWith(Val(call.ret), ".csv")
    /\ Val(call.ret) \in DOMAIN disk

\* save_session has run in CSV format on a session
CsvSaved ==
    /\ call.op = "save_session"
    /\ Val(call.ret).format = "csv"
    /\ ~IsNone(call.pre)

\* the messages a CSV round trip is to give back for a history: role and content,
\* and received_at cut to the whole second
SecondsOnly(messages) ==
    [i \in 1..Len(messages) |->
        [role |-> messages[i].role, content |-> messages[i].content,
         received_at |-> Second(messages[i].received_at) * Subsecond]]

\* C21: whatever the history of a session, save_session in CSV format succeeds, and
\* load_session of the file it wrote succeeds with as many messages in the same
\* order, each with the role and the content of the original and with received_at
\* equal, as a UTC instant, to the original cut to the whole second.
C21_CsvRoundTrip ==
    /\ CsvSaved => call.pc = "returned"
    /\ CsvReloaded =>
          /\ call.pc = "returned"
          /\ SecondsOnly(Now.messages) = SecondsOnly(disk[Val(call.ret)].saved.messages)
          /\ \A i \in 1..Len(Now.messages) :
                 Now.messages[i].received_at % Subsecond = 0

\* load_session has run on a JSON file that save_session wrote
JsonReloaded ==
    /\ call.op = "load_session"
    /\ EndsWith(Val(call.ret), ".json")
    /\ Val(call.ret) \in DOMAIN disk

\* C22: load_session of a JSON file that save_session wrote, with a credential
\* supplied, succeeds; the session it builds has the system the caller supplied
\* where one was supplied and the supplied credential, every other persisted key
\* with its persisted value, and so the messages of the saved session in order and
\* its three running totals.
C22_JsonLoad ==
    JsonReloaded =>
        LET saved == disk[Val(call.ret)].saved
            persisted == SessDict(saved)
            loaded == SessDict(Now)
            supplied == IF IsNone(call.kwargs.system) THEN {} ELSE {"system"}
        IN /\ call.pc = "returned"
           /\ \A k \in supplied : loaded[k] = Val(call.kwargs[k])
           /\ Now.auth.api_key = "sk-arg"
           /\ \A k \in DOMAIN persisted \ supplied :
                  k \in DOMAIN loaded /\ loaded[k] = persisted[k]
           /\ Now.messages = saved.messages
           /\ Totals(Now) = Totals(saved)

\* C22: a history with a turn and its totals loaded again, under a new system
C22_Witness ==
    /\ JsonReloaded
    /\ call.pc = "returned"
    /\ call.kwargs.system = Some("Loaded.")
    /\ Now.system = "Loaded."
    /\ Len(Now.messages) = 2
    /\ Now.messages[2].received_at > Epoch
    /\ Totals(Now) = <<10, 2, 12>>

\* save_session has run on a session in a format it knows
FileWritten ==
    /\ call.op = "save_session"
    /\ ~IsNone(call.pre)
    /\ Val(call.ret).format \in {"csv", "json"}

\* the credentials a session may hold
ApiKeys == {"sk-env", "sk-arg", "sk-other"}

\* C23: the file save_session writes, in CSV and in JSON format, is the file it
\* writes for the same session holding any other credential, and it has no auth,
\* api_url or input_fields entry: a JSON file has none of these keys and a CSV
\* file has the seven message columns alone.
C23_NoCredentials ==
    FileWritten =>
        LET format == Val(call.ret).format
            file == disk[Val(call.ret).path].file
        IN /\ \A key \in ApiKeys :
                  SaveResult([Before EXCEPT !.auth = [api_key |-> key]], format).file = file
           /\ format = "json" => DOMAIN file \cap Excluded = {}
           /\ format = "csv" => \A i \in 1..Len(file) : DOMAIN file[i] = CsvFields

\* C23: the loaded copy of a session, holding the credential of the load, saved as
\* JSON to the file the original was saved to, with a turn in its history
C23_Witness ==
    /\ FileWritten
    /\ call.pc = "returned"
    /\ Val(call.ret).format = "json"
    /\ Before.auth.api_key = "sk-arg"
    /\ Len(Before.messages) = 2
    /\ heap[Val(default_session)].auth.api_key = "sk-env"
    /\ heap[Val(default_session)].messages = Before.messages


----------------------------------------------------------------------------
(* The API key of a session *)

\* the operations that create a session object
Creates == {"new_session", "session", "load_session"}
Resolves(api_key) == TruthyOptStr(api_key) \/ TruthyOptStr(environ)
NothingRegistered ==
    /\ sessions' = sessions
    /\ heap' = heap
    /\ default_session' = default_session
    /\ scopes' = scopes
    /\ sent' = <<>>

C24_WitnessInit ==
    /\ ~TruthyOptStr(environ)
    /\ call.op = "__init__" /\ call.pc = "raised"

\* an argument and an environment value: the session carries the argument
C24_WitnessBoth ==
    /\ environ = Some("sk-env")
    /\ call.op \in Creates /\ call.pc = "returned"
    /\ call.kwargs.api_key = Some("sk-arg")
    /\ heap[Val(call.ref)].auth.api_key = "sk-arg"

----------------------------------------------------------------------------
(* The transport client of a manager *)

\* C25: the client of a manager changes only in a step that starts a call or a
\* stream of an async manager whose client still is the blocking one, and then to
\* an async client; an async client is never replaced, so the manager makes two
\* clients at most and every async operation after the first runs on the same one;
\* the client of a blocking manager is the one its constructor made
C25_ClientSwitch ==
    /\ [][client' # client =>
              /\ cls = "AsyncAIChat"
              /\ Starts("call") \/ Starts("stream")
              /\ client.type = "Client" /\ client'.type = "AsyncClient"]_vars
    /\ [][client.type = "AsyncClient" => client' = client]_vars
    /\ [][(cls = "AsyncAIChat" /\ (Starts("call") \/ Starts("stream"))) =>
              client'.type = "AsyncClient"]_vars
    /\ [](client.made <= 2)
    /\ [](cls = "AIChat" => client = InitClient)

\* the second operation of an async manager has returned on the client the first made
C25_Witness ==
    /\ cls = "AsyncAIChat"
    /\ client = [type |-> "AsyncClient", made |-> 2]
    /\ call.pc = "returned"
    /\ billed[Val(default_session)].n >= 2

----------------------------------------------------------------------------
(* The async operations against the blocking ones *)

\* a step of an async manager in which the response to the request at pc arrives
Arrives(pc) ==
    /\ Async
    /\ call.pc = pc /\ call'.pc # pc
    /\ call'.err # "TransportError"

\* what the blocking operation does with the response at the same point: the
\* session, and the operation's return value or exception
BlockingOutcome(res, ret) ==
    /\ heap'[Val(call.ref)] = res.self
    /\ IF res.status = "ok"
       THEN call'.pc = "returned" /\ call'.ret = ret
       ELSE call'.pc = "raised" /\ call'.err = GenError(res.status)

\* gen_with_tools after the selection response, from the session it left
BlockingSelection(self, content) ==
    LET args == call.args
        tools == Val(args.tools)
        tool_idx == ParseInt(content)
        selected == PyIndex(tools, Val(tool_idx) - 1)
    IN IF IsNone(tool_idx) THEN call'.pc = "raised" /\ call'.err = "ValueError"
       ELSE IF Val(tool_idx) = 0
       THEN /\ call'.pc = "fallback_post"
            /\ sent' = Append(sent, FallbackRequest(self, args).data)
            /\ invoked' = invoked
       ELSE IF IsNone(selected) THEN call'.pc = "raised" /\ call'.err = "IndexError"
       ELSE /\ invoked' = Append(invoked, [tool |-> Val(selected).name,
                                           prompt |-> args.prompt, requests |-> 1])
            /\ call'.pc = "context_post"
            /\ \E result \in ToolResults :
                   LET context_dict == ContextDict(result, Val(selected))
                   IN /\ call'.context_dict = Some(context_dict)
                      /\ sent' = Append(sent,
                                        PrepareRequest(self,
                                                       NewPrompt(context_dict, args.prompt),
                                                       Some(NewSystem(self, args.system)),
                                                       args.params, FALSE, None, None).data)

\* C26: every step of gen_async, stream_async and gen_with_tools_async leaves what the
\* same step of gen, stream and gen_with_tools leaves from the same session, arguments
\* and response: the same session history and totals, the same requests and tool
\* invocations, the same events, and the same return value or exception
C26_AsyncAsBlocking ==
    [][/\ (Async /\ Starts("call") /\ call'.pc = "probe_post") =>
              LET tools == Val(call'.args.tools)
              IN sent' = <<PrepareRequest(Val(call'.pre), call'.args.prompt,
                                          Some(ToolPromptFormat(tools)),
                                          Some(ProbeParams(tools)), FALSE, None, None).data>>
       /\ Arrives("gen_post") =>
              LET res == GenResult(heap[Val(call.ref)], Val(call.user_message),
                                   call.args.save_messages, call.args.output_schema,
                                   Val(call'.r))
              IN BlockingOutcome(res, res.content)
       /\ Arrives("probe_post") =>
              LET res == GenResult(heap[Val(call.ref)], Val(call.user_message),
                                   Some(FALSE), None, Val(call'.r))
              IN /\ heap'[Val(call.ref)] = res.self
                 /\ IF res.status # "ok"
                    THEN call'.pc = "raised" /\ call'.err = GenError(res.status)
                    ELSE BlockingSelection(res.self, Val(res.content))
       /\ Arrives("fallback_post") =>
              LET res == GenResult(heap[Val(call.ref)], Val(call.user_message),
                                   call.args.save_messages, None, Val(call'.r))
              IN BlockingOutcome(res, IF res.status = "ok"
                                      THEN Some([response |-> Val(res.content),
                                                 tool |-> None])
                                      ELSE None)
       /\ Arrives("context_post") =>
              LET res == GenResult(heap[Val(call.ref)], Val(call.user_message),
                                   Some(FALSE), None, Val(call'.r))
                  ctx == Val(call.context_dict)
                  committed ==
                      IF res.status = "ok"
                      THEN [res EXCEPT !.self = CommitToolTurn(res.self, call.args,
                                                               Val(call.user_message),
                                                               Val(res.content))]
                      ELSE res
              IN BlockingOutcome(committed,
                                 IF res.status = "ok"
                                 THEN Some([k \in DOMAIN ctx \cup {"response"} |->
                                               IF k = "response" THEN Val(res.content)
                                               ELSE ctx[k]])
                                 ELSE None)
       /\ (Async /\ call.pc = "streaming" /\ Len(call'.lines) = Len(call.lines) + 1) =>
              LET res == StreamChunk(call.content, call'.lines[Len(call'.lines)])
              IN /\ emitted' = emitted \o res.events
                 /\ heap' = heap
                 /\ IF res.status = "ok"
                    THEN call'.pc = "streaming" /\ call'.content = res.content
                    ELSE call'.pc = "raised" /\ call'.err = res.status
       /\ (Async /\ call.pc = "streaming" /\ call'.pc = "returned") =>
              /\ emitted' = emitted
              /\ heap'[Val(call.ref)] =
                     AddMessages(heap[Val(call.ref)], Val(call.user_message),
                                 StreamMessage(call.content), call.args.save_messages)
      ]_vars

\* an async call with tools has returned the context of the selected tool and
\* committed its turn
C26_Witness ==
    /\ Async
    /\ call.op = "call" /\ call.pc = "returned"
    /\ ~IsNone(call.context_dict)
    /\ Len(invoked) = 1 /\ Len(sent) = 2
    /\ Len(heap[Val(call.ref)].messages) = Len(Val(call.pre).messages) + 2

\* an async stream has delivered an event and committed its turn
C26_WitnessStream ==
    /\ Async
    /\ call.op = "stream" /\ call.pc = "returned"
    /\ Len(emitted) >= 1
    /\ Len(heap[Val(call.ref)].messages) = Len(Val(call.pre).messages) + 2

----------------------------------------------------------------------------
(* Streams closed before their end *)

\* C27: when a stream is closed before its end, the step that closes it closes its
\* response and changes no session, and afterwards no response is open and the
\* session of the stream is the one before the stream call, history and totals
C27_StreamAbort ==
    /\ [][(call.pc = "streaming" /\ call'.pc = "closed") =>
              /\ conn = 1 /\ conn' = 0
              /\ heap' = heap
              /\ billed' = billed]_vars
    /\ [](call.pc = "closed" =>
              /\ conn = 0
              /\ heap[Val(call.ref)] = Val(call.pre)
              /\ heap[Val(call.ref)].messages = Val(call.pre).messages
              /\ Totals(heap[Val(call.ref)]) = Totals(Val(call.pre)))

\* a stream of a session with a history and totals was closed after two events
C27_Witness ==
    /\ call.op = "stream" /\ call.pc = "closed"
    /\ Len(emitted) = 2
    /\ Len(heap[Val(call.ref)].messages) >= 2
    /\ heap[Val(call.ref)].total_length > 0
    /\ call.args.save_messages = Some(TRUE)

----------------------------------------------------------------------------
(* The messages of a request *)

UsageCounters == {"prompt_length", "completion_length", "total_length"}

\* the operation has just built its first request on the session in call.pre
FirstRequest == call.op \in {"call", "stream"} /\ ~IsNone(call.pre) /\ Len(sent) = 1

\* the message the i-th entry of the request was made from: the system message, a
\* message of the history's tail, the user message
EntrySource(i) ==
    LET self == Val(call.pre)
        n == Len(sent[1].messages)
        h == Len(self.messages)
    IN IF i = 1 THEN ChatMessage("system", self.system, None, None, None, None, None)
       ELSE IF i = n THEN Val(call.user_message)
       ELSE self.messages[h - (n - 2) + (i - 1)]

\* C28: every entry of the messages of a request has keys of the session's
\* input_fields only, has no key of an optional field whose value is absent, and
\* carries the values of its message; with the default fields no entry has
\* received_at, finish_reason or a usage counter, and an entry has a name exactly
\* when its message has one
C28_InputProjection ==
    FirstRequest =>
        LET self == Val(call.pre)
            entries == sent[1].messages
        IN /\ Len(entries) >= 2
           /\ Len(entries) - 2 <= Len(self.messages)
           /\ \A i \in 1..Len(entries) :
                  LET entry == entries[i]
                      m == EntrySource(i)
                  IN /\ DOMAIN entry \subseteq self.input_fields
                     /\ \A f \in OptionalFields : IsNone(m[f]) => f \notin DOMAIN entry
                     /\ \A f \in DOMAIN entry :
                            entry[f] = IF f \in OptionalFields THEN Val(m[f]) ELSE m[f]
                     /\ {"role", "content"} \cap self.input_fields \subseteq DOMAIN entry
                     /\ self.input_fields = DefaultInputFields =>
                            /\ DOMAIN entry \cap ({"received_at", "finish_reason"}
                                                  \cup UsageCounters) = {}
                            /\ "name" \in DOMAIN entry <=> ~IsNone(m.name)

\* a request of a session with the default fields whose window holds a function
\* message with a name and an assistant message with a finish reason and usage
C28_Witness ==
    /\ FirstRequest
    /\ Val(call.pre).input_fields = DefaultInputFields
    /\ \E i, j \in 2..(Len(sent[1].messages) - 1) :
           /\ "name" \in DOMAIN sent[1].messages[i]
           /\ ~IsNone(EntrySource(j).finish_reason)
           /\ ~IsNone(EntrySource(j).total_length)
           /\ "name" \notin DOMAIN sent[1].messages[j]

\* a request of a session whose fields are role and content alone drops a name
C28_WitnessNarrow ==
    /\ FirstRequest
    /\ Val(call.pre).input_fields = {"role", "content"}
    /\ \E i \in 1..Len(sent[1].messages) :
           ~IsNone(EntrySource(i).name) /\ "name" \notin DOMAIN sent[1].messages[i]

----------------------------------------------------------------------------
(* The accessors of the totals *)

\* an accessor of a manager with a default session has been read
TotalRead(attr) == call.op = attr /\ ~IsNone(default_session)

\* total_length, total_prompt_length and total_completion_length return the running
\* totals of the default session
TotalsReturned ==
    \A attr \in TotalAttrs :
        TotalRead(attr) =>
            /\ call.pc = "returned"
            /\ call.ret = Some(heap[Val(default_session)][attr])

\* C29: reading total_tokens of a manager with a default session returns the
\* integer that reading total_length returns, the default session's total_length
C29_TotalTokensAlias ==
    TotalRead("total_tokens") =>
        /\ call.pc = "returned"
        /\ call.ret = TotalProperty("total_length").value
        /\ call.ret = Some(heap[Val(default_session)].total_length)

----------------------------------------------------------------------------
(* The order of a call with tools *)

\* a call with tools that passed the checks of __call__ and sent its selection request
WithTools ==
    /\ call.op = "call"
    /\ ~IsNone(call.args.tools) /\ Len(Val(call.args.tools)) > 0
    /\ ~IsNone(call.pre)

\* C30: a call with tools has sent one request and called no tool while the selection
\* response is awaited; the step of the selection response, when the call goes on,
\* calls no tool for index 0 and the indexed tool once, with the original prompt and
\* one request sent, for an index in 1..N, and sends the second request; while the
\* second response is awaited and when the call has returned, two requests have been
\* sent and at most one tool was called once; the history is the one before the call
\* until the second response has arrived
C30_ToolOrder ==
    /\ []((WithTools /\ call.pc = "probe_post") =>
              /\ Len(sent) = 1 /\ invoked = <<>>
              /\ Now.messages = Before.messages)
    /\ []((WithTools /\ call.pc \in {"fallback_post", "context_post", "returned"}) =>
              /\ Len(sent) = 2
              /\ Len(invoked) <= 1
              /\ \A i \in 1..Len(invoked) :
                     /\ invoked[i].prompt = call.args.prompt
                     /\ invoked[i].requests = 1
              /\ call.pc # "returned" => Now.messages = Before.messages)
    /\ [][(WithTools /\ call.pc = "probe_post" /\ call'.pc \notin {"probe_post", "raised"}) =>
              LET tools == Val(call.args.tools)
                  idx == Val(ParseInt(ResponseContent(Val(call'.r))))
              IN /\ idx = 0 => call'.pc = "fallback_post" /\ invoked' = <<>>
                 /\ idx \in 1..Len(tools) =>
                        /\ call'.pc = "context_post"
                        /\ invoked' = <<[tool |-> tools[idx].name,
                                         prompt |-> call.args.prompt, requests |-> 1]>>
                 /\ sent' = Append(sent, sent'[2])]_vars
    /\ [][(WithTools /\ Now.messages # Before.messages)' =>
              call.pc \in {"fallback_post", "context_post", "returned"}]_vars

\* a call with two tools selected the second, called it and returned
C30_Witness ==
    /\ WithTools /\ call.pc = "returned"
    /\ Len(sent) = 2
    /\ invoked = <<[tool |-> Val(call.args.tools)[2].name, prompt |-> call.args.prompt,
                    requests |-> 1]>>
    /\ Len(Now.messages) = Len(Before.messages) + 2

\* a call with tools got index 0 and returned without calling a tool
C30_WitnessZero ==
    /\ WithTools /\ call.pc = "returned"
    /\ Len(sent) = 2 /\ invoked = <<>>
    /\ Len(Now.messages) = Len(Before.messages) + 2

----------------------------------------------------------------------------
(* The selection request of a call with tools *)

\* the descriptions of the first n tools, numbered from 1, one to a line
RECURSIVE Listing(_, _)
Listing(tools, n) ==
    IF n = 0 THEN ""
    ELSE IF n = 1 THEN "1: " \o tools[1].doc
    ELSE Listing(tools, n - 1) \o "\n" \o Str(n) \o ": " \o tools[n].doc

\* C31: the selection request of a call with N tools carries the params temperature
\* 0, max_tokens 1 and a logit bias over the N+1 token ids 15..15+N and no other,
\* whatever params the caller and the session have; its system message is the tool
\* prompt followed by the tools' descriptions numbered 1..N in the order given and
\* its last message the prompt; and the step of its response stores no message,
\* whatever the save override of the call
C31_SelectionRequest ==
    /\ []((WithTools /\ call.pc = "probe_post") =>
              LET tools == Val(call.args.tools)
                  N == Len(tools)
                  req == sent[1]
              IN /\ N \in 1..9
                 /\ Len(sent) = 1
                 /\ DOMAIN req.params = {"temperature", "max_tokens", "logit_bias"}
                 /\ req.params.temperature = "0.0"
                 /\ req.params.max_tokens = 1
                 /\ DOMAIN req.params.logit_bias = {Str(k) : k \in 15..(15 + N)}
                 /\ Cardinality(DOMAIN req.params.logit_bias) = N + 1
                 /\ req.messages[1] = [role |-> "system",
                                       content |-> tool_prompt \o Listing(tools, N)]
                 /\ req.messages[Len(req.messages)] =
                        [role |-> "user", content |-> call.args.prompt.text]
                 /\ req.stream = FALSE
                 /\ IsNone(req.functions) /\ IsNone(req.function_call))
    /\ [][(WithTools /\ call.pc = "probe_post") =>
              heap'[Val(call.ref)].messages = heap[Val(call.ref)].messages]_vars

\* the selection request of a saving call with nine tools and params of its own, on
\* a session with params of its own, was answered
C31_Witness ==
    /\ WithTools /\ call.pc = "context_post"
    /\ Len(Val(call.args.tools)) = 9
    /\ call.args.save_messages = Some(TRUE)
    /\ ~IsNone(call.args.params)
    /\ "top_p" \in DOMAIN Before.params
    /\ "24" \in DOMAIN sent[1].params.logit_bias
    /\ Now.messages = <<>>
    /\ Now.total_length = 6

----------------------------------------------------------------------------
(* The pairs of a history *)

\* a request message followed by a response message
IsPair(request, response) ==
    /\ request.role \in {"user", "function"}
    /\ response.role = "assistant"

\* C32: the history of a session that started empty has an even length and is a
\* sequence of pairs, a user or function message followed by an assistant message;
\* and every step that changes a history either empties it or appends one such
\* pair to it, the request message being the one of the operation under way
C32_Pairs ==
    /\ [](\A ref \in DOMAIN heap :
              LET messages == heap[ref].messages
              IN /\ Len(messages) % 2 = 0
                 /\ \A i \in 1..Len(messages) :
                        i % 2 = 1 => IsPair(messages[i], messages[i + 1]))
    /\ [][\A ref \in DOMAIN heap \cap DOMAIN heap' :
              LET old == heap[ref].messages
                  new == heap'[ref].messages
              IN new # old =>
                     \/ new = <<>> /\ call'.op = "reset_session"
                     \/ /\ Len(new) = Len(old) + 2
                        /\ SubSeq(new, 1, Len(old)) = old
                        /\ IsPair(new[Len(old) + 1], new[Len(old) + 2])
                        /\ new[Len(old) + 1].content \in
                               {Val(call.user_message).content, call.args.prompt.text}
                        /\ call'.pc = "returned"]_vars

\* a history of two pairs, a function turn and a streamed turn, in any order
C32_Witness ==
    LET messages == heap[Val(default_session)].messages
    IN /\ Len(messages) = 4
       /\ \E i, j \in 1..4 :
              /\ messages[i].role = "function"
              /\ messages[j].role = "assistant" /\ IsNone(messages[j].finish_reason)
              /\ i % 2 = 1 /\ j % 2 = 0 /\ j # i + 1

----------------------------------------------------------------------------
(* Generations that end in an error *)

\* C33: a generation that ends in an error leaves its session as it was before the
\* call: the same history and the same three running totals
C33_ErrorLeavesSession ==
    (call.op = "call" /\ IsNone(call.args.tools) /\ call.pc = "raised"
     /\ ~IsNone(call.pre)) =>
        /\ Now.messages = Before.messages
        /\ Totals(Now) = Totals(Before)

----------------------------------------------------------------------------
(* The default pointer and the entry under the default's id *)

\* C34: whenever a default session is set, get_session() and
\* get_session(default_session.id) return the same session: the entry under the
\* default's id is never a different session than the default pointer refers to
C34_DefaultRegistered ==
    ~IsNone(default_session) =>
        GetSession(Some(heap[Val(default_session)].id)) = GetSession(None)


----------------------------------------------------------------------------
(* SpecFrame: two sessions of one manager, operations on one of them *)

FrameIds == {None, Some("b")}
FrameArgs ==
    {[a EXCEPT !.id = id] :
        a \in {Ask(Question, None),
               [NoArgs EXCEPT !.prompt = Question, !.tools = Some(<<Search, Lookup>>)]},
        id \in FrameIds}

\* the session an operation with this id would act on has no history yet
Untouched(id) ==
    GetSession(id).status = "ok" =>
        /\ heap[Val(GetSession(id).ref)].messages = <<>>
        /\ billed[Val(GetSession(id).ref)].n < MaxPoolRequests

NextFrame ==
    \/ \E uuid \in Uuids : NewSession([NoKwargs EXCEPT !.id = Some("b")], uuid)
    \/ \E args \in FrameArgs :
           /\ Untouched(args.id)
           /\ Call(args)
    \/ GenReturn(Answer)
    \/ \E r \in {Completion("assistant", c, "length", Usage(5, 1, 6)) : c \in {"0", "1"}} :
           ProbeReturn(r, [type |-> "str", text |-> "four"])
    \/ FallbackReturn(Answer)
    \/ ContextReturn(Answer)
    \/ \E id \in FrameIds :
           /\ Untouched(id)
           /\ Stream([Ask(Question, None) EXCEPT !.id = id])
    \/ \E line \in {"data: [DONE]", ContentLine("A")} :
           /\ Len(call.lines) < MaxLines
           /\ StreamLine(line)
    \/ StreamEnd
    \/ \E id \in FrameIds : ResetSession(id)
    \/ \E id \in FrameIds : SaveSession(None, id, "json")

SpecFrame == InitPool /\ [][NextFrame]_vars

\* the operations that act on one session of the pool
TargetOps == {"call", "stream", "reset_session", "save_session"}

\* C35: a call, a stream, a generation with tools, a reset or a save of one session
\* leaves every other session object of the manager as it was (history, running
\* totals and configuration), and leaves the pool and the default pointer alone
C35_Frame ==
    [][call'.op \in TargetOps =>
          /\ \A q \in DOMAIN heap :
                 q \notin {call'.ref[i] : i \in DOMAIN call'.ref} =>
                     q \in DOMAIN heap' /\ heap'[q] = heap[q]
          /\ sessions' = sessions
          /\ default_session' = default_session]_vars

\* a call on one session has returned and stored its turn while another session
\* holds a history of its own
C35_Witness ==
    /\ call.op = "call" /\ call.pc = "returned"
    /\ Len(heap[Val(call.ref)].messages) > 0
    /\ \E q \in DOMAIN heap \ {Val(call.ref)} :
           /\ Len(heap[q].messages) > 0
           /\ heap[q].messages # heap[Val(call.ref)].messages


----------------------------------------------------------------------------
(* SpecBlock: with-blocks on a manager whose pool nothing else changes *)

InitBlock ==
    /\ InitManager(None, "a", TRUE, NoKwargs, Some("sk-env"))
    /\ cls \in Classes
    /\ now = Epoch
    /\ tasks = <<>>
    /\ tzlocal = "UTC"

BlockIds == {None, Some("a"), Some("b")}

NextBlock ==
    \/ \E id \in BlockIds, uuid \in Uuids :
           SessionEnter([NoKwargs EXCEPT !.id = id], uuid)
    \/ \E path \in ExitPaths : SessionExit(path)
    \/ \E id \in {None, Some("uuid-1"), Some("b")} :
           /\ GetSession(id).status = "ok" => billed[Val(GetSession(id).ref)].n < MaxPoolRequests
           /\ Call([Ask(Question, None) EXCEPT !.id = id])
    \/ \E r \in {Answer, ErrorBody} : GenReturn(r)

SpecBlock == InitBlock /\ [][NextBlock]_vars

\* C36: the pool changes only by entering and leaving with-blocks here, so whenever
\* no block is open the pool is the one before any block was entered: the session
\* the manager was constructed with is registered under "a" and is the default
C36_BlockRestoresPool ==
    scopes = <<>> =>
        /\ DOMAIN sessions = {"a"}
        /\ default_session = Some(sessions["a"])
        /\ heap[sessions["a"]].id = "a"


----------------------------------------------------------------------------
(* SpecTasks: coroutines of one event loop generating on the same session *)

\* gen_async suspends at `await client.post(...)` (line 261) and nowhere else: the
\* event loop starts the next coroutine while this one waits
Spawn ==
    /\ call.op = "call" /\ call.pc = "gen_post"
    /\ Len(tasks) + 1 < MaxTasks
    /\ tasks' = Append(tasks, call)
    /\ call' = NoCall
    /\ UNCHANGED <<heap, sessions, default_session, client, environ, scopes,
                   sent, emitted, invoked, billed, cls, conn, disk, now, tzlocal>>

\* the event loop switches to suspended coroutine i while the running one waits
\* for its response or has finished
Switch(i) ==
    /\ call.pc \in {"gen_post", "returned", "raised"}
    /\ i \in DOMAIN tasks
    /\ tasks[i].pc = "gen_post"
    /\ tasks' = [tasks EXCEPT ![i] = call]
    /\ call' = tasks[i]
    /\ UNCHANGED <<heap, sessions, default_session, client, environ, scopes,
                   sent, emitted, invoked, billed, cls, conn, disk, now, tzlocal>>

Question2 == StrPrompt("3+3?")
Answer2 == Completion("assistant", "6", "stop", Usage(11, 3, 14))

InitTasks ==
    /\ InitManager(None, "a", TRUE, NoKwargs, Some("sk-env"))
    /\ cls = "AsyncAIChat"
    /\ now = Epoch
    /\ tasks = <<>>
    /\ tzlocal = "UTC"

NextTasks ==
    \/ \E args \in {Ask(Question, None), Ask(Question2, Some(TRUE)),
                     Ask(Question2, Some(FALSE))} :
           /\ call.pc = "idle"
           /\ Call(args)
    \/ \E r \in {Answer, Answer2, ErrorBody} : GenReturn(r)
    \/ TransportFailure
    \/ Spawn
    \/ \E i \in 1..MaxTasks : Switch(i)

SpecTasks == InitTasks /\ [][NextTasks]_vars

\* the coroutines of the event loop, the running one last
Coroutines == Append(tasks, call)

\* every coroutine is a generation that returned and whose turn was to be saved
AllSaved ==
    \A i \in DOMAIN Coroutines :
        LET t == Coroutines[i] IN
        /\ t.op = "call" /\ t.pc = "returned"
        /\ t.ref = default_session
        /\ IF IsNone(t.args.save_messages) THEN TruthyOptBool(heap[Val(t.ref)].save_messages)
           ELSE Val(t.args.save_messages)

RECURSIVE UsageSum(_, _)
UsageSum(cs, key) ==
    IF cs = <<>> THEN 0
    ELSE Val(Val(Val(Val(cs[1].r).usage)[key])) + UsageSum(Tail(cs), key)

\* C37: when all the coroutines that generated on one session together have
\* returned with saving in effect, the history holds the turn of each one, its user
\* message next to its assistant message, and nothing else, and the running
\* totals are the sums of the usages of their responses (the totals started at 0)
C37_NoLostUpdate ==
    (Len(Coroutines) = MaxTasks /\ AllSaved) =>
        LET self == heap[Val(default_session)] IN
        /\ Len(self.messages) = 2 * MaxTasks
        /\ \A i \in DOMAIN Coroutines :
               \E k \in 1..MaxTasks :
                   /\ self.messages[2 * k - 1] = Val(Coroutines[i].user_message)
                   /\ self.messages[2 * k] = AssistantMessage(Val(Coroutines[i].r))
        /\ self.total_prompt_length = UsageSum(Coroutines, "prompt_tokens")
        /\ self.total_completion_length = UsageSum(Coroutines, "completion_tokens")
        /\ self.total_length = UsageSum(Coroutines, "total_tokens")

\* two generations were in flight together: the running one built its request on
\* the empty history, the other one's turn was stored while it waited, and both
\* have returned with different turns
C37_Witness ==
    /\ Len(Coroutines) = MaxTasks /\ AllSaved
    /\ Len(Val(call.pre).messages) = 0
    /\ heap[Val(default_session)].messages[2 * MaxTasks - 1] = Val(call.user_message)
    /\ \E i \in DOMAIN tasks :
           /\ tasks[i].user_message # call.user_message
           /\ tasks[i].r # call.r

----------------------------------------------------------------------------
(* Saving the histories that calls and streams leave, in CSV format *)

\* C38: for the history a session has after calls (with or without an input
\* schema) and fully consumed streams (a stream without a delta among them),
\* save_session in CSV format succeeds, and load_session of the file it wrote
\* succeeds with a history of the same length
C38_CsvSucceeds ==
    /\ CsvSaved => call.pc = "returned"
    /\ CsvReloaded =>
          /\ call.pc = "returned"
          /\ Len(Now.messages) = Len(disk[Val(call.ret)].saved.messages)


----------------------------------------------------------------------------
(* The id a loaded session is registered under *)

\* C39: after load_session returned, of a CSV file or of a JSON file, get_session
\* with the id the caller passed returns the loaded session
C39_LoadedUnderId ==
    (call.op = "load_session" /\ call.pc = "returned") =>
        GetSession(call.args.id) = [status |-> "ok", ref |-> call.ref]


----------------------------------------------------------------------------
(* The running totals and the usage counters of the stored messages *)

\* the sum of one usage counter over the messages of a history that carry it
RECURSIVE StoredUsage(_, _)
StoredUsage(messages, counter) ==
    IF messages = <<>> THEN 0
    ELSE (IF IsNone(messages[1][counter]) THEN 0 ELSE Val(messages[1][counter]))
         + StoredUsage(Tail(messages), counter)

\* C40: for every session of the pool each running total is at least the sum of
\* the corresponding usage counter over the messages stored in its history, and no
\* step decreases a running total of a session object
C40_TotalsCoverHistory ==
    /\ [](\A id \in DOMAIN sessions :
              LET self == heap[sessions[id]] IN
              /\ self.total_prompt_length >= StoredUsage(self.messages, "prompt_length")
              /\ self.total_completion_length
                     >= StoredUsage(self.messages, "completion_length")
              /\ self.total_length >= StoredUsage(self.messages, "total_length"))
    /\ [][\A ref \in DOMAIN heap \cap DOMAIN heap' :
              /\ heap'[ref].total_prompt_length >= heap[ref].total_prompt_length
              /\ heap'[ref].total_completion_length >= heap[ref].total_completion_length
              /\ heap'[ref].total_length >= heap[ref].total_length]_vars

====
